---- MODULE Spec2Model ----
(***************************************************************************)
(* Connectivity & notification core of oceangram-tray:                     *)
(*   - MessageTracker  (tracker.js / tracker.ts): unread ledger, watermarks *)
(*   - DaemonClient    (daemon.js): health flag, push socket, reconnects    *)
(*   - BubbleManager   (bubbles.js): pool of indicator windows              *)
(* Every handler of the single-threaded event loop is one action; an async  *)
(* function is cut at its awaits.                                           *)
(***************************************************************************)
EXTENDS Integers, Sequences, FiniteSets, TLC

\* ------------------------------------------------------------------ bounds
\* message ids the backend hands out are 1..MaxMsgId
MaxMsgId == 2
\* length of one getMessages response
MaxBatch == 1

\* ------------------------------------------------------------- universe
\* "42" is the whitelisted contact, "43" another sender
UserIds == {"42", "43"}
\* "d1" is the private dialog of "42", "d2" a group dialog
DialogIds == {"d1", "d2"}
MsgIds == 1..MaxMsgId

\* the contacts whose unread counts drive the bubble pool
BubbleUserIds == {"1", "2", "3", "4", "5"}

\* GET /dialogs: TelegramDialog records; userId "" is an absent field
DialogList == << [id |-> "d1", userId |-> "42"], [id |-> "d2", userId |-> ""] >>

\* a backend message; "" is an absent fromId / senderId field
Messages == [id : MsgIds, fromId : UserIds \cup {""}, senderId : UserIds \cup {""}]
\* messages as the backend sends them in a dialog's history: the sender is known
HistoryMessages == {m \in Messages : m.fromId # "" /\ m.senderId = ""}

RECURSIVE SeqsUpTo(_, _)
SeqsUpTo(S, n) ==
  IF n = 0 THEN {<<>>}
  ELSE LET shorter == SeqsUpTo(S, n - 1)
       IN shorter \cup {Append(s, x) : s \in {t \in shorter : Len(t) = n - 1}, x \in S}

\* GET /dialogs/:id/messages?limit=10
MessageResponses == SeqsUpTo(HistoryMessages, MaxBatch)

\* partial maps (JS Map)
EmptyMap == << >>
MapHas(m, k) == k \in DOMAIN m
MapSet(m, k, v) == [x \in (DOMAIN m) \cup {k} |-> IF x = k THEN v ELSE m[x]]
MapDelete(m, k) == [x \in (DOMAIN m) \ {k} |-> m[x]]
PartialMaps(K, V) == UNION {[D -> V] : D \in SUBSET K}

VARIABLES
  whitelist,      \* WhitelistManager.config.whitelist, as the set of its userIds
  unreads,        \* MessageTracker.unreads: userId -> [dialogId, messages, count]
  lastSeenIds,    \* MessageTracker.lastSeenIds: dialogId -> message id
  listening,      \* tracker.start() has registered the 'newMessage' listener
  pollTimer,      \* MessageTracker.pollTimer is armed
  polls,          \* the suspended _poll() calls: the set of the awaits they stand at
  connected,      \* DaemonClient.connected
  ws,             \* DaemonClient.ws: "none", or the readyState of the socket it refers to
  detached,       \* sockets connectWS closed and replaced, their 'close' event still to come
  timers,         \* the reconnect timeouts armed and neither fired nor cleared (their ids)
  reconnectTimer, \* DaemonClient.reconnectTimer: 0 for null, else the id of the last armed
  reconnectAttempts, \* DaemonClient.reconnectAttempts
  healthCheckTimer,  \* DaemonClient.healthCheckTimer is armed
  bubbles,        \* BubbleManager.bubbles: the userIds that have a window, in insertion order
  closing,        \* per userId, the windows close() was called on, their 'closed' still to come
  orphans,        \* per userId, the open windows that BubbleManager.bubbles no longer holds
  lastDelay,      \* observation: the delay of the last reconnect scheduled
  schedCount,     \* history: reconnects scheduled since the last 'open' (or the start)
  emitted,        \* the events emitted by the last handler, in order
  last,           \* observation: the last handler run, its inputs and the state it found
  accepted,       \* history: the <<userId, message id>> pairs accepted so far
  lastSeenFile,   \* ~/.oceangram-tray/last-seen.json: whether it parses, and its JSON object
  config,         \* WhitelistManager.config: the whitelist entries in order, the settings
  configFile,     \* ~/.oceangram-tray/config.json: whether it parses, and the config in it
  writable        \* environment: fs.writeFileSync succeeds at present

trackerVars == <<whitelist, unreads, lastSeenIds, listening, pollTimer, polls>>
daemonVars == <<ws, detached, timers, reconnectTimer, reconnectAttempts, healthCheckTimer,
                lastDelay, schedCount>>
bubbleVars == <<bubbles, closing, orphans>>
fileVars == <<lastSeenFile, config, configFile, writable>>
vars == <<whitelist, unreads, lastSeenIds, listening, pollTimer, polls,
          connected, ws, detached, timers, reconnectTimer, reconnectAttempts,
          healthCheckTimer, bubbles, closing, orphans,
          lastDelay, schedCount, emitted, last, accepted,
          lastSeenFile, config, configFile, writable>>

\* ------------------------------------------------------------- events
NewMessageEv(userId, dialogId, msg) ==
  [type |-> "new-message", userId |-> userId, dialogId |-> dialogId, id |-> msg.id, count |-> 0]
UnreadsChangedEv(userId, count) ==
  [type |-> "user-unreads-changed", userId |-> userId, dialogId |-> "", id |-> 0, count |-> count]
MessagesReadEv(userId) ==
  [type |-> "messages-read", userId |-> userId, dialogId |-> "", id |-> 0, count |-> 0]
ConnectionChangedEv(flag) ==
  [type |-> "connection-changed", userId |-> "", dialogId |-> "", id |-> 0,
   count |-> IF flag THEN 1 ELSE 0]

\* ---------------------------------------------------------- whitelist
\* WhitelistManager.isWhitelisted
isWhitelisted(userId) == userId \in whitelist

\* a userId as JSON carries it: a string, or a number whose decimal form is `text`
Str(text) == [isNumber |-> FALSE, text |-> text]
Num(text) == [isNumber |-> TRUE, text |-> text]
\* String(userId)
String(v) == v.text

\* this.config.whitelist.some((u) => String(u.userId) === id)
SomeEntry(entries, id) == \E k \in 1..Len(entries) : String(entries[k].userId) = id

\* the userIds isWhitelisted answers true for
WhitelistedIds(entries) == {String(entries[k].userId) : k \in 1..Len(entries)}

\* the entries addUser stores for these userIds, in order
RECURSIVE EntriesOf(_)
EntriesOf(ids) ==
  IF ids = <<>> THEN <<>>
  ELSE << [userId |-> Str(Head(ids))] >> \o EntriesOf(Tail(ids))

\* DEFAULT_CONFIG.settings, of which the model keeps bubblePosition
DefaultSettings == [bubblePosition |-> "right"]

\* ------------------------------------------------------------- files
\* a file that was never written, or that holds '{}'
NoFile == [valid |-> TRUE, data |-> {}]

\* JSON.stringify(Object.fromEntries(this.lastSeenIds)): the object's key/value pairs
LastSeenJson(seen) == {<<d, seen[d]>> : d \in DOMAIN seen}

\* _loadLastSeen: the pairs of the parsed object are set one by one; a file that does not
\* parse leaves the map empty
LoadLastSeen(file) ==
  IF file.valid
  THEN [d \in {pr[1] : pr \in file.data} |-> (CHOOSE pr \in file.data : pr[1] = d)[2]]
  ELSE EmptyMap

\* fs.writeFileSync(file, text): the file holds the text; when the write fails the file
\* is as it was (it could not be opened) or truncated (it was opened, then the write failed)
WriteFile(file, data) ==
  IF writable THEN {[valid |-> TRUE, data |-> data]}
  ELSE {file, [valid |-> FALSE, data |-> {}]}

\* _saveLastSeen() returning without writing
SaveLastSeen_Skip(seen) == UNCHANGED lastSeenFile

\* _saveLastSeen() with the watermarks `seen`: errors are swallowed
SaveLastSeen(seen) == lastSeenFile' \in WriteFile(lastSeenFile, LastSeenJson(seen))

\* WhitelistManager.save() with the config `c`: errors are logged and swallowed
SaveConfig(c) == configFile' \in WriteFile(configFile, c)

\* ------------------------------------------------------------ tracker
\* msg.fromId || msg.senderId || ''
SenderOf(msg) == IF msg.fromId # "" THEN msg.fromId ELSE msg.senderId

\* the ledger keeps the message object; of it the model keeps the id and the sender
StoredMsg(msg) == [id |-> msg.id, fromId |-> SenderOf(msg)]

\* entry.messages.some((m) => m.id === msg.id)
HasId(messages, id) == \E i \in 1..Len(messages) : messages[i].id = id

\* _addUnread without its duplicate check
AddUnread_NoDedup(st, userId, dialogId, msg) ==
  LET withRow == IF MapHas(st.unreads, userId) THEN st.unreads
                 ELSE MapSet(st.unreads, userId,
                             [dialogId |-> dialogId, messages |-> <<>>, count |-> 0])
      msgs == Append(withRow[userId].messages, StoredMsg(msg))
  IN [unreads |-> MapSet(withRow, userId,
                         [dialogId |-> dialogId, messages |-> msgs, count |-> Len(msgs)]),
      emitted |-> st.emitted \o << NewMessageEv(userId, dialogId, msg),
                                   UnreadsChangedEv(userId, Len(msgs)) >>]

\* _addUnread assigning entry.dialogId before its duplicate check
AddUnread_DialogFirst(st, userId, dialogId, msg) ==
  LET withRow == IF MapHas(st.unreads, userId) THEN st.unreads
                 ELSE MapSet(st.unreads, userId,
                             [dialogId |-> dialogId, messages |-> <<>>, count |-> 0])
      entry == [withRow[userId] EXCEPT !.dialogId = dialogId]
  IN IF HasId(entry.messages, msg.id)
     THEN [unreads |-> MapSet(withRow, userId, entry), emitted |-> st.emitted]
     ELSE LET msgs == Append(entry.messages, StoredMsg(msg))
          IN [unreads |-> MapSet(withRow, userId,
                                 [dialogId |-> dialogId, messages |-> msgs, count |-> Len(msgs)]),
              emitted |-> st.emitted \o << NewMessageEv(userId, dialogId, msg),
                                           UnreadsChangedEv(userId, Len(msgs)) >>]

\* _addUnread emitting the count it read before the append
AddUnread_StaleCount(st, userId, dialogId, msg) ==
  LET withRow == IF MapHas(st.unreads, userId) THEN st.unreads
                 ELSE MapSet(st.unreads, userId,
                             [dialogId |-> dialogId, messages |-> <<>>, count |-> 0])
      entry == withRow[userId]
  IN IF HasId(entry.messages, msg.id)
     THEN [unreads |-> withRow, emitted |-> st.emitted]
     ELSE LET msgs == Append(entry.messages, StoredMsg(msg))
          IN [unreads |-> MapSet(withRow, userId,
                                 [dialogId |-> dialogId, messages |-> msgs, count |-> Len(msgs)]),
              emitted |-> st.emitted \o << NewMessageEv(userId, dialogId, msg),
                                           UnreadsChangedEv(userId, Len(entry.messages)) >>]

\* _addUnread putting the message in front (messages.unshift)
AddUnread_Unshift(st, userId, dialogId, msg) ==
  LET withRow == IF MapHas(st.unreads, userId) THEN st.unreads
                 ELSE MapSet(st.unreads, userId,
                             [dialogId |-> dialogId, messages |-> <<>>, count |-> 0])
      entry == withRow[userId]
  IN IF HasId(entry.messages, msg.id)
     THEN [unreads |-> withRow, emitted |-> st.emitted]
     ELSE LET msgs == << StoredMsg(msg) >> \o entry.messages
          IN [unreads |-> MapSet(withRow, userId,
                                 [dialogId |-> dialogId, messages |-> msgs, count |-> Len(msgs)]),
              emitted |-> st.emitted \o << NewMessageEv(userId, dialogId, msg),
                                           UnreadsChangedEv(userId, Len(msgs)) >>]

\* MessageTracker._addUnread, on the pair st = [unreads, emitted]
AddUnread(st, userId, dialogId, msg) ==
  LET withRow == IF MapHas(st.unreads, userId) THEN st.unreads
                 ELSE MapSet(st.unreads, userId,
                             [dialogId |-> dialogId, messages |-> <<>>, count |-> 0])
      entry == withRow[userId]
  IN IF HasId(entry.messages, msg.id)
     THEN [unreads |-> withRow, emitted |-> st.emitted]
     ELSE LET msgs == Append(entry.messages, StoredMsg(msg))
          IN [unreads |-> MapSet(withRow, userId,
                                 [dialogId |-> dialogId, messages |-> msgs, count |-> Len(msgs)]),
              emitted |-> st.emitted \o << NewMessageEv(userId, dialogId, msg),
                                           UnreadsChangedEv(userId, Len(msgs)) >>]

\* for (const msg of newMsgs) this._addUnread(userId, dialogId, msg)
RECURSIVE AddAll(_, _, _, _)
AddAll(st, userId, dialogId, msgs) ==
  IF msgs = <<>> THEN st
  ELSE AddAll(AddUnread(st, userId, dialogId, Head(msgs)), userId, dialogId, Tail(msgs))

\* the poll filter without its sender test
NewMsgs_AnySender(messages, seen, dialogId, userId) ==
  IF MapHas(seen, dialogId) /\ seen[dialogId] # 0
  THEN LET Keep(m) == m.id > seen[dialogId]
       IN SelectSeq(messages, Keep)
  ELSE <<>>

\* lastSeen ? messages.filter(m => m.id > lastSeen && String(m.fromId || m.senderId) === userId) : []
\* (lastSeen is undefined without an entry; a stored 0 is falsy as well)
NewMsgs(messages, seen, dialogId, userId) ==
  IF MapHas(seen, dialogId) /\ seen[dialogId] # 0
  THEN LET Keep(m) == m.id > seen[dialogId] /\ SenderOf(m) = userId
       IN SelectSeq(messages, Keep)
  ELSE <<>>

\* MessageTracker.getUnreads
getUnreads(userId) ==
  IF MapHas(unreads, userId) THEN unreads[userId]
  ELSE [dialogId |-> "", messages |-> <<>>, count |-> 0]

\* what a handler is observed to have done: its name and inputs, the messages it
\* passed to _addUnread, the watermarks and the contact's ledger row it found
StoredAll(msgs) == [k \in 1..Len(msgs) |-> StoredMsg(msgs[k])]
Obs(op, userId, dialogId, messages, kept, seen) ==
  [op |-> op, userId |-> userId, dialogId |-> dialogId,
   messages |-> StoredAll(messages), kept |-> StoredAll(kept),
   seen |-> seen, hadRow |-> MapHas(unreads, userId), row |-> getUnreads(userId)]
NoOp == [op |-> "", userId |-> "", dialogId |-> "", messages |-> <<>>, kept |-> <<>>,
         seen |-> EmptyMap, hadRow |-> FALSE,
         row |-> [dialogId |-> "", messages |-> <<>>, count |-> 0]]

\* the constructors of the three singletons, but for the watermark file's content
Constructed ==
  /\ whitelist = {"42"}
  /\ unreads = EmptyMap
  /\ listening = FALSE
  /\ pollTimer = FALSE
  /\ polls = {}
  /\ connected = FALSE
  /\ ws = "none"
  /\ detached = 0
  /\ timers = {}
  /\ reconnectTimer = 0
  /\ reconnectAttempts = 0
  /\ healthCheckTimer = FALSE
  /\ bubbles = <<>>
  /\ closing = [u \in BubbleUserIds |-> 0]
  /\ orphans = [u \in BubbleUserIds |-> 0]
  /\ lastDelay = 0
  /\ schedCount = 0
  /\ emitted = <<>>
  /\ last = NoOp
  /\ accepted = {}
  /\ config = [whitelist |-> EntriesOf(<<"42">>), settings |-> DefaultSettings]
  /\ configFile = [valid |-> TRUE, data |-> config]
  /\ writable = TRUE

\* _loadLastSeen: whatever an earlier run left in last-seen.json
Init ==
  /\ Constructed
  /\ lastSeenFile \in {[valid |-> TRUE, data |-> LastSeenJson(m)] :
                         m \in PartialMaps(DialogIds, MsgIds)}
  /\ lastSeenIds = LoadLastSeen(lastSeenFile)

\* a first run: no last-seen.json
InitFresh == Constructed /\ lastSeenFile = NoFile /\ lastSeenIds = LoadLastSeen(lastSeenFile)

\* ---- MessageTracker.start
TrackerStart ==
  /\ ~listening
  /\ listening' = TRUE
  /\ pollTimer' = TRUE
  /\ emitted' = <<>>
  /\ UNCHANGED <<whitelist, unreads, lastSeenIds, polls, connected>>
  /\ UNCHANGED daemonVars
  /\ UNCHANGED fileVars
  /\ UNCHANGED bubbleVars

\* if (!fromId || !whitelist.isWhitelisted(fromId)) return;  else the message goes on
PushKept_NoWhitelist(msg) ==
  IF SenderOf(msg) = "" THEN <<>> ELSE <<msg>>

PushKept(msg) ==
  IF SenderOf(msg) = "" \/ ~isWhitelisted(SenderOf(msg)) THEN <<>> ELSE <<msg>>

\* ---- MessageTracker._handleNewMessage, called by daemon.emit('newMessage', event)
HandleNewMessage(msg, dialogId) ==
  /\ listening
  /\ LET st == AddAll([unreads |-> unreads, emitted |-> <<>>],
                      SenderOf(msg), dialogId, PushKept(msg))
     IN /\ unreads' = st.unreads
        /\ emitted' = st.emitted
  /\ UNCHANGED <<whitelist, lastSeenIds, listening, pollTimer, polls, connected>>
  /\ UNCHANGED daemonVars
  /\ UNCHANGED fileVars
  /\ UNCHANGED bubbleVars

\* markRead emptying the ledger row instead of deleting it
MarkRead_KeepRow(userId) ==
  /\ emitted' = IF MapHas(unreads, userId)
                THEN << MessagesReadEv(userId), UnreadsChangedEv(userId, 0) >>
                ELSE <<>>
  /\ IF ~MapHas(unreads, userId)
     THEN UNCHANGED <<unreads, lastSeenIds, lastSeenFile>>
     ELSE LET entry == unreads[userId]
          IN /\ lastSeenIds' = IF entry.messages # <<>>
                               THEN MapSet(lastSeenIds, entry.dialogId,
                                           entry.messages[Len(entry.messages)].id)
                               ELSE lastSeenIds
             /\ IF entry.messages # <<>>
                THEN SaveLastSeen(lastSeenIds')
                ELSE UNCHANGED lastSeenFile
             /\ unreads' = MapSet(unreads, userId,
                                  [dialogId |-> entry.dialogId, messages |-> <<>>, count |-> 0])
  /\ UNCHANGED <<whitelist, listening, pollTimer, polls, connected>>
  /\ UNCHANGED <<config, configFile, writable>>
  /\ UNCHANGED daemonVars
  /\ UNCHANGED bubbleVars

\* markRead with a _saveLastSeen that lets the write error out: the handler ends there
MarkRead_SaveThrows(userId) ==
  /\ emitted' = IF MapHas(unreads, userId) /\ writable
                THEN << MessagesReadEv(userId), UnreadsChangedEv(userId, 0) >>
                ELSE <<>>
  /\ IF ~MapHas(unreads, userId)
     THEN UNCHANGED <<unreads, lastSeenIds, lastSeenFile>>
     ELSE LET entry == unreads[userId]
          IN /\ lastSeenIds' = IF entry.messages # <<>>
                               THEN MapSet(lastSeenIds, entry.dialogId,
                                           entry.messages[Len(entry.messages)].id)
                               ELSE lastSeenIds
             /\ IF entry.messages # <<>>
                THEN SaveLastSeen(lastSeenIds')
                ELSE UNCHANGED lastSeenFile
             /\ unreads' = IF writable THEN MapDelete(unreads, userId) ELSE unreads
  /\ UNCHANGED <<whitelist, listening, pollTimer, polls, connected>>
  /\ UNCHANGED <<config, configFile, writable>>
  /\ UNCHANGED daemonVars
  /\ UNCHANGED bubbleVars

\* markRead emitting its two events whether or not the contact has a row
MarkRead_AlwaysEmits(userId) ==
  /\ emitted' = << MessagesReadEv(userId), UnreadsChangedEv(userId, 0) >>
  /\ IF ~MapHas(unreads, userId)
     THEN UNCHANGED <<unreads, lastSeenIds, lastSeenFile>>
     ELSE LET entry == unreads[userId]
          IN /\ lastSeenIds' = IF entry.messages # <<>>
                               THEN MapSet(lastSeenIds, entry.dialogId,
                                           entry.messages[Len(entry.messages)].id)
                               ELSE lastSeenIds
             /\ IF entry.messages # <<>>
                THEN SaveLastSeen(lastSeenIds')
                ELSE UNCHANGED lastSeenFile
             /\ unreads' = MapDelete(unreads, userId)
  /\ UNCHANGED <<whitelist, listening, pollTimer, polls, connected>>
  /\ UNCHANGED <<config, configFile, writable>>
  /\ UNCHANGED daemonVars
  /\ UNCHANGED bubbleVars

\* daemon.markRead(latest.id): the POST /messages/:id/read requests markRead(userId) issues
MarkReadRequests(userId) ==
  IF MapHas(unreads, userId) /\ unreads[userId].messages # <<>>
  THEN << unreads[userId].messages[Len(unreads[userId].messages)].id >>
  ELSE <<>>

\* ---- MessageTracker.markRead
MarkRead(userId) ==
  /\ emitted' = IF MapHas(unreads, userId)
                THEN << MessagesReadEv(userId), UnreadsChangedEv(userId, 0) >>
                ELSE <<>>
  /\ IF ~MapHas(unreads, userId)
     THEN UNCHANGED <<unreads, lastSeenIds, lastSeenFile>>
     ELSE LET entry == unreads[userId]
          IN /\ lastSeenIds' = IF entry.messages # <<>>
                               THEN MapSet(lastSeenIds, entry.dialogId,
                                           entry.messages[Len(entry.messages)].id)
                               ELSE lastSeenIds
             /\ IF entry.messages # <<>>
                THEN SaveLastSeen(lastSeenIds')
                ELSE UNCHANGED lastSeenFile
             /\ unreads' = MapDelete(unreads, userId)
  /\ UNCHANGED <<whitelist, listening, pollTimer, polls, connected>>
  /\ UNCHANGED <<config, configFile, writable>>
  /\ UNCHANGED daemonVars
  /\ UNCHANGED bubbleVars

\* String(dialog.userId || dialog.id)
DialogUser(dialog) == IF dialog.userId # "" THEN dialog.userId ELSE dialog.id

\* a suspended _poll() stands at 'await getDialogs()' or at 'await getMessages(dialogId, 10)'
PollAtDialogs == [pc |-> "dialogs", userId |-> "", dialogId |-> "", rest |-> <<>>]
PollAtMessages(dialog, rest) ==
  [pc |-> "messages", userId |-> DialogUser(dialog), dialogId |-> dialog.id, rest |-> rest]

\* the for loop of _poll up to its next await: dialogs of other users are skipped
RECURSIVE SkipToWhitelisted(_)
SkipToWhitelisted(dialogs) ==
  IF dialogs = <<>> THEN <<>>
  ELSE IF isWhitelisted(DialogUser(Head(dialogs))) THEN dialogs
       ELSE SkipToWhitelisted(Tail(dialogs))

\* _poll returning after getDialogs() instead of walking the dialogs
PollContinue_Return(p, dialogs) ==
  polls' = polls \ {p}

\* the poll p goes on with the dialogs left: suspends on the next fetch, or returns
PollContinue(p, dialogs) ==
  LET todo == SkipToWhitelisted(dialogs)
  IN polls' = (polls \ {p}) \cup (IF todo = <<>> THEN {}
                                  ELSE {PollAtMessages(Head(todo), Tail(todo))})

\* ---- the poll timer fires: MessageTracker._poll up to 'await daemon.getDialogs()'
PollTick ==
  /\ pollTimer
  /\ polls' = IF connected THEN polls \cup {PollAtDialogs} ELSE polls
  /\ emitted' = <<>>
  /\ UNCHANGED <<whitelist, unreads, lastSeenIds, listening, pollTimer, connected>>
  /\ UNCHANGED daemonVars
  /\ UNCHANGED fileVars
  /\ UNCHANGED bubbleVars

\* GET /dialogs answers: the dialog list, or [] when the request failed
DialogResponses == {<<>>, DialogList}

\* ---- getDialogs() resolves: _poll from there up to its first 'await getMessages'
PollDialogs(p, dialogs) ==
  /\ p \in polls
  /\ p.pc = "dialogs"
  /\ PollContinue(p, dialogs)
  /\ emitted' = <<>>
  /\ UNCHANGED <<whitelist, unreads, lastSeenIds, listening, pollTimer, connected>>
  /\ UNCHANGED daemonVars
  /\ UNCHANGED fileVars
  /\ UNCHANGED bubbleVars

\* ---- getMessages() resolves: the filter, the acceptances, then the next dialog
\* if (!Array.isArray(messages) || messages.length === 0) continue;  else the filter
PollKept(p, messages) ==
  IF messages = <<>> THEN <<>> ELSE NewMsgs(messages, lastSeenIds, p.dialogId, p.userId)

\* a poll that moves the dialog's watermark to the last message it accepted
PollMessages_AdvancesWatermark(p, messages) ==
  /\ p \in polls
  /\ p.pc = "messages"
  /\ LET newMsgs == PollKept(p, messages)
         st == AddAll([unreads |-> unreads, emitted |-> <<>>], p.userId, p.dialogId, newMsgs)
     IN /\ unreads' = st.unreads
        /\ emitted' = st.emitted
        /\ lastSeenIds' = IF newMsgs # <<>>
                          THEN MapSet(lastSeenIds, p.dialogId, newMsgs[Len(newMsgs)].id)
                          ELSE lastSeenIds
        /\ PollContinue(p, p.rest)
  /\ UNCHANGED <<whitelist, listening, pollTimer, connected>>
  /\ UNCHANGED daemonVars
  /\ UNCHANGED bubbleVars
  /\ UNCHANGED fileVars

PollMessages(p, messages) ==
  /\ p \in polls
  /\ p.pc = "messages"
  /\ LET newMsgs == PollKept(p, messages)
         st == AddAll([unreads |-> unreads, emitted |-> <<>>], p.userId, p.dialogId, newMsgs)
     IN /\ unreads' = st.unreads
        /\ emitted' = st.emitted
        /\ PollContinue(p, p.rest)
  /\ UNCHANGED <<whitelist, lastSeenIds, listening, pollTimer, connected>>
  /\ UNCHANGED daemonVars
  /\ UNCHANGED fileVars
  /\ UNCHANGED bubbleVars

\* ---- DaemonClient.getHealth resolves (ok) or fails
GetHealth(ok) ==
  /\ connected' = ok
  /\ emitted' = << ConnectionChangedEv(ok) >>
  /\ UNCHANGED trackerVars
  /\ UNCHANGED daemonVars
  /\ UNCHANGED fileVars
  /\ UNCHANGED bubbleVars

\* events of the push channel: any message of any sender in any dialog
PushMessages == {m \in Messages : m.fromId = "" \/ m.senderId = ""}

\* the acceptances of a step, read off the 'new-message' events it emitted
AcceptedBy(events) ==
  {<<events[k].userId, events[k].id>> : k \in {j \in 1..Len(events) : events[j].type = "new-message"}}

\* the tracker's handlers, each observed
TrackerObsNext ==
  \/ /\ TrackerStart
     /\ last' = Obs("start", "", "", <<>>, <<>>, EmptyMap)
     /\ UNCHANGED accepted
  \/ \E msg \in PushMessages, d \in DialogIds :
       /\ HandleNewMessage(msg, d)
       /\ last' = Obs("push", SenderOf(msg), d, <<msg>>, PushKept(msg), EmptyMap)
       /\ UNCHANGED accepted
  \/ \E u \in UserIds :
       /\ MarkRead(u)
       /\ last' = Obs("markRead", u, getUnreads(u).dialogId, <<>>, <<>>, lastSeenIds)
       /\ UNCHANGED accepted
  \/ /\ PollTick
     /\ last' = Obs("tick", "", "", <<>>, <<>>, EmptyMap)
     /\ UNCHANGED accepted
  \/ \E p \in polls, dialogs \in DialogResponses :
       /\ PollDialogs(p, dialogs)
       /\ last' = Obs("dialogs", "", "", <<>>, <<>>, EmptyMap)
       /\ UNCHANGED accepted
  \/ \E p \in polls, messages \in MessageResponses :
       /\ PollMessages(p, messages)
       /\ last' = Obs("poll", p.userId, p.dialogId, messages, PollKept(p, messages), lastSeenIds)
       /\ UNCHANGED accepted
  \/ \E ok \in BOOLEAN :
       /\ GetHealth(ok)
       /\ last' = Obs("health", "", "", <<>>, <<>>, EmptyMap)
       /\ UNCHANGED accepted

SpecTrackerObs == Init /\ [][TrackerObsNext]_vars

\* the same handlers, with the history of acceptances kept instead
Remember == accepted' = accepted \cup AcceptedBy(emitted') /\ UNCHANGED last
TrackerHistNext ==
  \/ TrackerStart /\ Remember
  \/ \E msg \in PushMessages, d \in DialogIds : HandleNewMessage(msg, d) /\ Remember
  \/ \E u \in UserIds : MarkRead(u) /\ Remember
  \/ PollTick /\ Remember
  \/ \E p \in polls, dialogs \in DialogResponses : PollDialogs(p, dialogs) /\ Remember
  \/ \E p \in polls, messages \in MessageResponses : PollMessages(p, messages) /\ Remember
  \/ \E ok \in BOOLEAN : GetHealth(ok) /\ Remember

SpecTrackerHist == Init /\ [][TrackerHistNext]_vars

\* ------------------------------------------------------------- daemon
\* this.maxReconnectDelay
maxReconnectDelay == 30000
\* the 1000 of 1000 * Math.pow(2, this.reconnectAttempts)
ReconnectBaseDelay == 1000
\* reconnects scheduled in a row that the model follows
MaxAttempts == 6
\* replaced sockets that may wait for their 'close' event at the same time
MaxDetached == 1

RECURSIVE Pow2(_)
Pow2(n) == IF n = 0 THEN 1 ELSE 2 * Pow2(n - 1)
Min(a, b) == IF a < b THEN a ELSE b

WsConnectedEv == [type |-> "ws-connected", userId |-> "", dialogId |-> "", id |-> 0, count |-> 0]
WsDisconnectedEv == [type |-> "ws-disconnected", userId |-> "", dialogId |-> "", id |-> 0, count |-> 0]

\* setTimeout hands out an id no armed timer has
FreshTimer(armed) == CHOOSE t \in 1..(Cardinality(armed) + 1) : t \notin armed

\* _scheduleReconnect arming a new timer without clearing the pending one
ScheduleReconnect_NoClear(armed) ==
  LET delay == Min(ReconnectBaseDelay * Pow2(reconnectAttempts), maxReconnectDelay)
      t == FreshTimer(armed)
  IN /\ reconnectAttempts' = reconnectAttempts + 1
     /\ schedCount' = schedCount + 1
     /\ lastDelay' = delay
     /\ timers' = armed \cup {t}
     /\ reconnectTimer' = t

\* _scheduleReconnect computing the delay after the increment
ScheduleReconnect_LateDelay(armed) ==
  LET delay == Min(ReconnectBaseDelay * Pow2(reconnectAttempts + 1), maxReconnectDelay)
      left == armed \ {reconnectTimer}
      t == FreshTimer(left)
  IN /\ reconnectAttempts' = reconnectAttempts + 1
     /\ schedCount' = schedCount + 1
     /\ lastDelay' = delay
     /\ timers' = left \cup {t}
     /\ reconnectTimer' = t

\* _scheduleReconnect giving up after three attempts in a row
ScheduleReconnect_GiveUp(armed) ==
  LET delay == Min(ReconnectBaseDelay * Pow2(reconnectAttempts), maxReconnectDelay)
      left == armed \ {reconnectTimer}
      t == FreshTimer(left)
  IN /\ reconnectAttempts' = reconnectAttempts + 1
     /\ schedCount' = schedCount + 1
     /\ lastDelay' = delay
     /\ timers' = IF reconnectAttempts >= 3 THEN left ELSE left \cup {t}
     /\ reconnectTimer' = t

\* DaemonClient._scheduleReconnect, the set of armed timers being `armed` when it is called
ScheduleReconnect(armed) ==
  LET delay == Min(ReconnectBaseDelay * Pow2(reconnectAttempts), maxReconnectDelay)
      left == armed \ {reconnectTimer}
      t == FreshTimer(left)
  IN /\ reconnectAttempts' = reconnectAttempts + 1
     /\ schedCount' = schedCount + 1
     /\ lastDelay' = delay
     /\ timers' = left \cup {t}
     /\ reconnectTimer' = t

\* this.ws.close(): an open or connecting socket starts closing, its 'close' event follows
AfterClose(state) == IF state \in {"connecting", "open"} THEN "closing" ELSE state

\* DaemonClient.connectWS, the armed timers being `armed`; constructing the socket may throw
ConnectWS(armed, constructs) ==
  IF constructs
  THEN /\ ws' = "connecting"
       /\ detached' = IF AfterClose(ws) = "closing" THEN detached + 1 ELSE detached
       /\ timers' = armed
       /\ UNCHANGED <<reconnectTimer, reconnectAttempts, lastDelay, schedCount>>
  ELSE /\ ws' = AfterClose(ws)
       /\ UNCHANGED detached
       /\ ScheduleReconnect(armed)

\* connectWS can run: the model follows it only within its bounds
CanConnect(constructs) ==
  IF constructs THEN AfterClose(ws) = "closing" => detached < MaxDetached
  ELSE reconnectAttempts < MaxAttempts

\* ---- DaemonClient.start: startHealthCheck(), connectWS()
DaemonStart(constructs) ==
  /\ CanConnect(constructs)
  /\ healthCheckTimer' = TRUE
  /\ ConnectWS(timers, constructs)
  /\ emitted' = <<>>
  /\ UNCHANGED connected
  /\ UNCHANGED trackerVars
  /\ UNCHANGED fileVars
  /\ UNCHANGED bubbleVars

\* ---- the reconnect timeout t fires: connectWS()
ReconnectTimerFires(t, constructs) ==
  /\ t \in timers
  /\ CanConnect(constructs)
  /\ ConnectWS(timers \ {t}, constructs)
  /\ emitted' = <<>>
  /\ UNCHANGED <<connected, healthCheckTimer>>
  /\ UNCHANGED trackerVars
  /\ UNCHANGED fileVars
  /\ UNCHANGED bubbleVars

\* ---- the socket's 'open' handler
WsOpen ==
  /\ ws = "connecting"
  /\ ws' = "open"
  /\ reconnectAttempts' = 0
  /\ schedCount' = 0
  /\ connected' = TRUE
  /\ emitted' = << ConnectionChangedEv(TRUE), WsConnectedEv >>
  /\ UNCHANGED <<detached, timers, reconnectTimer, healthCheckTimer, lastDelay>>
  /\ UNCHANGED trackerVars
  /\ UNCHANGED fileVars
  /\ UNCHANGED bubbleVars

\* the 'close' handler: flag, notifications, _scheduleReconnect
OnClose ==
  /\ reconnectAttempts < MaxAttempts
  /\ connected' = FALSE
  /\ emitted' = << ConnectionChangedEv(FALSE), WsDisconnectedEv >>
  /\ ScheduleReconnect(timers)
  /\ UNCHANGED healthCheckTimer
  /\ UNCHANGED trackerVars
  /\ UNCHANGED fileVars
  /\ UNCHANGED bubbleVars

\* ---- 'close' of the socket this.ws refers to: refused, dropped by the peer, or closed by us
WsClose ==
  /\ ws \in {"connecting", "open", "closing"}
  /\ ws' = "closed"
  /\ UNCHANGED detached
  /\ OnClose

\* ---- 'close' of a socket connectWS replaced
WsCloseDetached ==
  /\ detached > 0
  /\ detached' = detached - 1
  /\ UNCHANGED ws
  /\ OnClose

\* an 'error' handler that schedules a reconnect of its own
WsError_Schedules ==
  /\ ws \in {"connecting", "open", "closing"}
  /\ reconnectAttempts < MaxAttempts
  /\ emitted' = <<>>
  /\ ScheduleReconnect(timers)
  /\ UNCHANGED <<connected, ws, detached, healthCheckTimer>>
  /\ UNCHANGED trackerVars
  /\ UNCHANGED bubbleVars
  /\ UNCHANGED fileVars

\* ---- the socket's 'error' handler: console.error only
WsError ==
  /\ ws \in {"connecting", "open", "closing"}
  /\ emitted' = <<>>
  /\ UNCHANGED connected
  /\ UNCHANGED daemonVars
  /\ UNCHANGED fileVars
  /\ UNCHANGED trackerVars
  /\ UNCHANGED bubbleVars

\* ---- DaemonClient.stop
DaemonStop ==
  /\ healthCheckTimer' = FALSE
  /\ timers' = timers \ {reconnectTimer}
  /\ ws' = AfterClose(ws)
  /\ emitted' = <<>>
  /\ UNCHANGED <<connected, detached, reconnectTimer, reconnectAttempts, lastDelay, schedCount>>
  /\ UNCHANGED trackerVars
  /\ UNCHANGED fileVars
  /\ UNCHANGED bubbleVars

\* what a daemon handler is observed to have found: the timers armed, the attempts counted
DaemonObs(op) ==
  [op |-> op, pending |-> Cardinality(timers), attempts |-> reconnectAttempts,
   count |-> schedCount]

Observed(op) == last' = DaemonObs(op) /\ UNCHANGED accepted

DaemonNext ==
  \/ \E c \in BOOLEAN : DaemonStart(c) /\ Observed("start")
  \/ \E t \in timers, c \in BOOLEAN : ReconnectTimerFires(t, c) /\ Observed("timer")
  \/ WsOpen /\ Observed("ws-open")
  \/ WsClose /\ Observed("ws-close")
  \/ WsCloseDetached /\ Observed("ws-close")
  \/ WsError /\ Observed("ws-error")
  \/ DaemonStop /\ Observed("stop")
  \/ \E ok \in BOOLEAN : GetHealth(ok) /\ Observed("health")

SpecDaemon == InitFresh /\ [][DaemonNext]_vars

\* an armed setTimeout fires: the event loop runs its callback once the delay has passed
ReconnectTimerDue ==
  \E t \in timers, c \in BOOLEAN : ReconnectTimerFires(t, c) /\ Observed("timer")

SpecDaemonFair == SpecDaemon /\ WF_vars(ReconnectTimerDue)

\* ================================================================ BubbleManager
MAX_BUBBLES == 5

\* DEFAULT_CONFIG.settings.maxBubbles
maxBubbles == 5

\* the unread counts an event carries go up to MaxCount
MaxCount == 1
\* windows followed outside the map: between close() and 'closed', or open and lost
MaxStray == 1

RECURSIVE SumOver(_, _)
SumOver(f, S) ==
  IF S = {} THEN 0
  ELSE LET u == CHOOSE x \in S : TRUE IN f[u] + SumOver(f, S \ {u})

\* this.bubbles.has(userId)
BubblesHas(userId) == \E k \in 1..Len(bubbles) : bubbles[k] = userId

\* this.bubbles.delete(userId)
BubblesDelete(userId) == SelectSeq(bubbles, LAMBDA u : u # userId)

BubbleUpdateEv(userId, count) ==
  [type |-> "bubble-update", userId |-> userId, dialogId |-> "", id |-> 0, count |-> count]

\* windows the map does not hold
StrayWindows == SumOver(closing, DOMAIN closing) + SumOver(orphans, DOMAIN orphans)

\* windows that exist and were not asked to close
LiveWindows == Len(bubbles) + SumOver(orphans, DOMAIN orphans)

\* _updateBubble sending its payload twice
UpdateBubble_Twice(userId, count) ==
  /\ emitted' = << BubbleUpdateEv(userId, count), BubbleUpdateEv(userId, count) >>
  /\ UNCHANGED bubbleVars

\* ---- BubbleManager._updateBubble: the tracked window is never a destroyed one here
UpdateBubble(userId, count) ==
  /\ emitted' = << BubbleUpdateEv(userId, count) >>
  /\ UNCHANGED bubbleVars

\* ---- BubbleManager.createBubble
CreateBubble(userId, unreadCount) ==
  IF BubblesHas(userId)
  THEN UpdateBubble(userId, unreadCount)
  ELSE IF Len(bubbles) >= MAX_BUBBLES
       THEN emitted' = <<>> /\ UNCHANGED bubbleVars
       ELSE /\ bubbles' = Append(bubbles, userId)
            /\ emitted' = <<>>
            /\ UNCHANGED <<closing, orphans>>

\* ---- BubbleManager.removeBubble: close() returns before the window's 'closed' event
RemoveBubble(userId) ==
  /\ BubblesHas(userId) => StrayWindows < MaxStray
  /\ closing' = IF BubblesHas(userId)
                THEN [closing EXCEPT ![userId] = @ + 1]
                ELSE closing
  /\ bubbles' = BubblesDelete(userId)
  /\ emitted' = <<>>
  /\ UNCHANGED orphans

\* ---- BubbleManager.handleUnreadsChanged, the 'user-unreads-changed' listener of init()
HandleUnreadsChanged(userId, count) ==
  /\ IF count > 0 THEN CreateBubble(userId, count) ELSE RemoveBubble(userId)
  /\ UNCHANGED trackerVars
  /\ UNCHANGED connected
  /\ UNCHANGED daemonVars
  /\ UNCHANGED fileVars

\* ---- openChatPopup: bubbles.removeBubble(userId)
PopupRemovesBubble(userId) ==
  /\ RemoveBubble(userId)
  /\ UNCHANGED trackerVars
  /\ UNCHANGED connected
  /\ UNCHANGED daemonVars
  /\ UNCHANGED fileVars

\* ---- bubble.on('closed'): the callback of a window close() was called on deletes the
\* map's entry of its userId, whichever window the entry holds by then
WindowClosed(userId) ==
  /\ closing[userId] > 0
  /\ closing' = [closing EXCEPT ![userId] = @ - 1]
  /\ orphans' = IF BubblesHas(userId)
                THEN [orphans EXCEPT ![userId] = @ + 1]
                ELSE orphans
  /\ bubbles' = BubblesDelete(userId)
  /\ emitted' = <<>>
  /\ UNCHANGED trackerVars
  /\ UNCHANGED connected
  /\ UNCHANGED daemonVars
  /\ UNCHANGED fileVars

\* ---- BubbleManager.destroyAll: close() on every tracked window, then clear the map
DestroyAll ==
  /\ closing' = [u \in BubbleUserIds |-> closing[u] + (IF BubblesHas(u) THEN 1 ELSE 0)]
  /\ bubbles' = <<>>
  /\ UNCHANGED orphans

\* ---- app.on('before-quit'): daemon.stop(), tracker.stop(), bubbles.destroyAll()
BeforeQuit ==
  /\ healthCheckTimer' = FALSE
  /\ timers' = timers \ {reconnectTimer}
  /\ ws' = AfterClose(ws)
  /\ pollTimer' = FALSE
  /\ SaveLastSeen(lastSeenIds)
  /\ DestroyAll
  /\ emitted' = <<>>
  /\ UNCHANGED <<connected, detached, reconnectTimer, reconnectAttempts, lastDelay, schedCount>>
  /\ UNCHANGED <<whitelist, unreads, lastSeenIds, listening, polls>>
  /\ UNCHANGED <<config, configFile, writable>>

\* the connection supervisor with the shutdown handler
ShutdownNext ==
  \/ \E c \in BOOLEAN : DaemonStart(c) /\ Observed("start")
  \/ \E t \in timers, c \in BOOLEAN : ReconnectTimerFires(t, c) /\ Observed("timer")
  \/ WsOpen /\ Observed("ws-open")
  \/ WsClose /\ Observed("ws-close")
  \/ WsCloseDetached /\ Observed("ws-close")
  \/ \E ok \in BOOLEAN : GetHealth(ok) /\ Observed("health")
  \/ BeforeQuit /\ Observed("quit")

SpecShutdown == InitFresh /\ [][ShutdownNext]_vars

BubbleObs(op, userId, count) ==
  [op |-> op, userId |-> userId, count |-> count,
   had |-> BubblesHas(userId), size |-> Len(bubbles)]

BubblesNext ==
  \/ \E u \in BubbleUserIds, n \in 0..MaxCount :
       HandleUnreadsChanged(u, n) /\ last' = BubbleObs("unreads", u, n) /\ UNCHANGED accepted
  \/ \E u \in BubbleUserIds :
       PopupRemovesBubble(u) /\ last' = BubbleObs("remove", u, 0) /\ UNCHANGED accepted
  \/ \E u \in BubbleUserIds :
       WindowClosed(u) /\ last' = BubbleObs("closed", u, 0) /\ UNCHANGED accepted

SpecBubbles == InitFresh /\ [][BubblesNext]_vars

\* ---------------------------------------------- polling against a reachable backend
\* the message the backend holds in dialog d1, sent by the whitelisted contact
BackendMessage == [id |-> MaxMsgId, fromId |-> "42", senderId |-> ""]

\* GET /dialogs/:id/messages?limit=10 of that backend
BackendMessages(dialogId) == IF dialogId = "d1" THEN << BackendMessage >> ELSE <<>>

Did(op) == last' = [op |-> op] /\ UNCHANGED accepted

\* the timers of a started app, whose HTTP requests all get their answers
HealthTick == healthCheckTimer /\ GetHealth(TRUE) /\ Did("health")
PollTimerTick == PollTick /\ Did("tick")
DialogsAnswer == \E p \in polls : PollDialogs(p, DialogList) /\ Did("dialogs")
MessagesAnswer == \E p \in polls : PollMessages(p, BackendMessages(p.dialogId)) /\ Did("poll")

ReachableNext ==
  \/ TrackerStart /\ Did("start")
  \/ ws = "none" /\ DaemonStart(TRUE) /\ Did("daemon-start")
  \/ HealthTick
  \/ PollTimerTick
  \/ DialogsAnswer
  \/ MessagesAnswer
  \/ \E msg \in PushMessages : HandleNewMessage(msg, "d1") /\ Did("push")
  \/ \E u \in UserIds : MarkRead(u) /\ Did("markRead")
  \/ \E t \in timers : ReconnectTimerFires(t, TRUE) /\ Did("timer")
  \/ WsOpen /\ Did("ws-open")
  \/ WsClose /\ Did("ws-close")

\* a first run, with the push events of the private dialog d1
SpecReachable == InitFresh /\ [][ReachableNext]_vars

SpecReachableFair ==
  /\ SpecReachable
  /\ WF_vars(HealthTick)
  /\ WF_vars(PollTimerTick)
  /\ WF_vars(DialogsAnswer)
  /\ WF_vars(MessagesAnswer)

\* ------------------------------------------- the tracker's events driving the pool
\* one contact more than the pool has room for, all whitelisted
PoolUserIds == BubbleUserIds \cup {"6"}

\* one push event per contact
PoolMessages == {[id |-> 1, fromId |-> u, senderId |-> ""] : u \in PoolUserIds}

\* the state of the BubbleManager
BubblesState == [bubbles |-> bubbles, closing |-> closing, orphans |-> orphans]

\* handleUnreadsChanged ignoring an event whose count is 0
OnUnreadsChanged_KeepOnZero(b, userId, count) ==
  LET has == \E k \in 1..Len(b.bubbles) : b.bubbles[k] = userId
  IN IF count > 0
     THEN IF has \/ Len(b.bubbles) >= MAX_BUBBLES
          THEN b
          ELSE [b EXCEPT !.bubbles = Append(@, userId)]
     ELSE b

\* handleUnreadsChanged(userId, count) run on the BubbleManager state b:
\* createBubble (has: update; full: return; else set), or removeBubble (close(), delete)
OnUnreadsChanged(b, userId, count) ==
  LET has == \E k \in 1..Len(b.bubbles) : b.bubbles[k] = userId
  IN IF count > 0
     THEN IF has \/ Len(b.bubbles) >= MAX_BUBBLES
          THEN b
          ELSE [b EXCEPT !.bubbles = Append(@, userId)]
     ELSE IF has
          THEN [b EXCEPT !.bubbles = SelectSeq(@, LAMBDA u : u # userId),
                         !.closing[userId] = @ + 1]
          ELSE b

\* emit() calls the listener of init() for each 'user-unreads-changed', in order
RECURSIVE Listeners(_, _)
Listeners(b, events) ==
  IF events = <<>> THEN b
  ELSE LET ev == Head(events)
       IN Listeners(IF ev.type = "user-unreads-changed"
                    THEN OnUnreadsChanged(b, ev.userId, ev.count)
                    ELSE b,
                    Tail(events))

\* the pool takes the state b
BubblesBecome(b) ==
  /\ bubbles' = b.bubbles
  /\ closing' = b.closing
  /\ orphans' = b.orphans

\* after initializeApp() wired the modules, every contact whitelisted, no last-seen.json
InitPool ==
  /\ whitelist = PoolUserIds
  /\ config = [whitelist |-> EntriesOf(<<"1", "2", "3", "4", "5", "6">>),
               settings |-> DefaultSettings]
  /\ configFile = [valid |-> TRUE, data |-> config]
  /\ writable = TRUE
  /\ lastSeenFile = NoFile
  /\ unreads = EmptyMap
  /\ lastSeenIds = EmptyMap
  /\ listening = FALSE
  /\ pollTimer = FALSE
  /\ polls = {}
  /\ connected = FALSE
  /\ ws = "none"
  /\ detached = 0
  /\ timers = {}
  /\ reconnectTimer = 0
  /\ reconnectAttempts = 0
  /\ healthCheckTimer = FALSE
  /\ bubbles = <<>>
  /\ closing = [u \in PoolUserIds |-> 0]
  /\ orphans = [u \in PoolUserIds |-> 0]
  /\ lastDelay = 0
  /\ schedCount = 0
  /\ emitted = <<>>
  /\ last = NoOp
  /\ accepted = {}

\* ---- a push event: _handleNewMessage, then the pool's listener on what it emitted
PoolPush(msg, dialogId) ==
  /\ listening
  /\ LET st == AddAll([unreads |-> unreads, emitted |-> <<>>],
                      SenderOf(msg), dialogId, PushKept(msg))
     IN /\ unreads' = st.unreads
        /\ emitted' = st.emitted
        /\ BubblesBecome(Listeners(BubblesState, st.emitted))
  /\ UNCHANGED <<whitelist, lastSeenIds, listening, pollTimer, polls, connected>>
  /\ UNCHANGED daemonVars
  /\ UNCHANGED fileVars

\* ---- ipcMain 'mark-read' (tracker.markRead), or openChatPopup (tracker.markRead, then
\* bubbles.removeBubble): the pool's listener runs inside markRead's emit
PoolMarkRead(userId, popup) ==
  /\ BubblesHas(userId) => StrayWindows < MaxStray
  /\ emitted' = IF MapHas(unreads, userId)
                THEN << MessagesReadEv(userId), UnreadsChangedEv(userId, 0) >>
                ELSE <<>>
  /\ IF ~MapHas(unreads, userId)
     THEN UNCHANGED <<unreads, lastSeenIds, lastSeenFile>>
     ELSE LET entry == unreads[userId]
          IN /\ lastSeenIds' = IF entry.messages # <<>>
                               THEN MapSet(lastSeenIds, entry.dialogId,
                                           entry.messages[Len(entry.messages)].id)
                               ELSE lastSeenIds
             /\ IF entry.messages # <<>>
                THEN SaveLastSeen(lastSeenIds')
                ELSE UNCHANGED lastSeenFile
             /\ unreads' = MapDelete(unreads, userId)
  /\ LET b == Listeners(BubblesState, emitted')
     IN BubblesBecome(IF popup THEN OnUnreadsChanged(b, userId, 0) ELSE b)
  /\ UNCHANGED <<whitelist, listening, pollTimer, polls, connected>>
  /\ UNCHANGED <<config, configFile, writable>>
  /\ UNCHANGED daemonVars

\* nothing is observed of these handlers beyond the program's own state
Unobserved == UNCHANGED <<last, accepted>>

PoolNext ==
  \/ TrackerStart /\ Unobserved
  \/ \E msg \in PoolMessages : PoolPush(msg, "d1") /\ Unobserved
  \/ \E u \in PoolUserIds, popup \in BOOLEAN : PoolMarkRead(u, popup) /\ Unobserved
  \/ \E u \in PoolUserIds : WindowClosed(u) /\ Unobserved

SpecPool == InitPool /\ [][PoolNext]_vars

\* -------------------------------------------------------- where the windows are put
BUBBLE_SIZE == 64
BUBBLE_GAP == 12
\* the 100 of y = 100 + index * (BUBBLE_SIZE + BUBBLE_GAP)
FirstSlotY == 100

\* y of the slot with this index
SlotY(index) == FirstSlotY + index * (BUBBLE_SIZE + BUBBLE_GAP)

\* the y every held window was last given (by new BrowserWindow or by setPosition)
Placed == IF "placed" \in DOMAIN last THEN last.placed ELSE EmptyMap

\* Placed after handleUnreadsChanged(userId, count): createBubble puts a new window at
\* index = this.bubbles.size; no other window is moved
PlacedAfterUnreads(userId, count) ==
  IF count > 0
  THEN IF BubblesHas(userId) \/ Len(bubbles) >= MAX_BUBBLES
       THEN Placed
       ELSE MapSet(Placed, userId, SlotY(Len(bubbles)))
  ELSE MapDelete(Placed, userId)

\* Placed after repositionAll(): the held windows in map order, index 0, 1, ...
PlacedCompact == [u \in {bubbles[k] : k \in 1..Len(bubbles)} |->
                    SlotY((CHOOSE k \in 1..Len(bubbles) : bubbles[k] = u) - 1)]

\* ---- ipcMain 'update-settings' with a bubblePosition: bubbles.repositionAll()
RepositionAll ==
  /\ emitted' = <<>>
  /\ UNCHANGED trackerVars
  /\ UNCHANGED connected
  /\ UNCHANGED daemonVars
  /\ UNCHANGED fileVars
  /\ UNCHANGED bubbleVars

SlotsObs(placed) == last' = [op |-> "placed", placed |-> placed] /\ UNCHANGED accepted

SlotsNext ==
  \/ \E u \in BubbleUserIds, n \in 0..MaxCount :
       HandleUnreadsChanged(u, n) /\ SlotsObs(PlacedAfterUnreads(u, n))
  \/ \E u \in BubbleUserIds :
       PopupRemovesBubble(u) /\ SlotsObs(MapDelete(Placed, u))
  \/ \E u \in BubbleUserIds :
       WindowClosed(u) /\ SlotsObs(MapDelete(Placed, u))
  \/ RepositionAll /\ SlotsObs(PlacedCompact)

SpecSlots == InitFresh /\ [][SlotsNext]_vars

\* ------------------------------------------------- the request wrappers of DaemonClient
\* how _request settles: a response, a transport error, or the 5 s timeout
RequestOutcomes == {"ok", "error", "timeout"}

\* the promise of _request(method, path, body): resolved with the decoded body, or rejected
Request(outcome) ==
  IF outcome = "ok" THEN [settled |-> "resolved", value |-> "body"]
  ELSE [settled |-> "rejected", value |-> outcome]

\* how a wrapper ends: it returns a value, or it throws
Returned(value) == [ends |-> "returned", value |-> value]
Raised == [ends |-> "raised", value |-> ""]

\* a wrapper awaiting the request outside of any try block
Caught_Rethrow(promise, sentinel) ==
  IF promise.settled = "resolved" THEN Returned(promise.value) ELSE Raised

\* try { return await this._request(...) } catch { return sentinel }
Caught(promise, sentinel) ==
  IF promise.settled = "resolved" THEN Returned(promise.value) ELSE Returned(sentinel)

\* getMe, sendMessage, markRead return null on failure; getDialogs, getMessages return []
Sentinel(op) == IF op \in {"getDialogs", "getMessages"} THEN "[]" ELSE "null"
PlainWrappers == {"getMe", "getDialogs", "getMessages", "sendMessage", "markRead"}

\* ---- getMe / getDialogs / getMessages / sendMessage / markRead settle
Wrapper(op, outcome) ==
  /\ emitted' = <<>>
  /\ last' = [op |-> op, outcome |-> outcome,
              result |-> Caught(Request(outcome), Sentinel(op))]
  /\ UNCHANGED connected
  /\ UNCHANGED trackerVars
  /\ UNCHANGED daemonVars
  /\ UNCHANGED bubbleVars
  /\ UNCHANGED fileVars
  /\ UNCHANGED accepted

\* getProfilePhoto: a fresh cached file is returned without a request; else the photo is
\* fetched, and stored when it is a Buffer of more than 100 bytes and the write succeeds
ProfilePhoto(cacheFresh, outcome, isPhoto, stored) ==
  IF cacheFresh THEN Returned("cachePath")
  ELSE LET got == Caught(Request(outcome), "null")
       IN IF got.value = "body" /\ isPhoto /\ stored
          THEN Returned("cachePath")
          ELSE Returned("null")

\* ---- getProfilePhoto settles
GetProfilePhoto(cacheFresh, outcome, isPhoto, stored) ==
  /\ emitted' = <<>>
  /\ last' = [op |-> IF cacheFresh THEN "getProfilePhoto-cached" ELSE "getProfilePhoto",
              outcome |-> outcome,
              result |-> ProfilePhoto(cacheFresh, outcome, isPhoto, stored)]
  /\ UNCHANGED connected
  /\ UNCHANGED trackerVars
  /\ UNCHANGED daemonVars
  /\ UNCHANGED bubbleVars
  /\ UNCHANGED fileVars
  /\ UNCHANGED accepted

\* ---- getHealth settles: the flag follows the outcome
HealthSettles(outcome) ==
  /\ GetHealth(Request(outcome).settled = "resolved")
  /\ last' = [op |-> "getHealth", outcome |-> outcome,
              result |-> Caught(Request(outcome), "null")]
  /\ UNCHANGED accepted

RequestObs(op) == last' = [op |-> op, outcome |-> "", result |-> Returned("")] /\ UNCHANGED accepted

\* the wrappers called while the push connection comes and goes
RequestsNext ==
  \/ DaemonStart(TRUE) /\ RequestObs("start")
  \/ \E t \in timers : ReconnectTimerFires(t, TRUE) /\ RequestObs("timer")
  \/ WsOpen /\ RequestObs("ws-open")
  \/ WsClose /\ RequestObs("ws-close")
  \/ WsCloseDetached /\ RequestObs("ws-close")
  \/ \E outcome \in RequestOutcomes : HealthSettles(outcome)
  \/ \E op \in PlainWrappers, outcome \in RequestOutcomes : Wrapper(op, outcome)
  \/ \E cacheFresh, isPhoto, stored \in BOOLEAN, outcome \in RequestOutcomes :
       GetProfilePhoto(cacheFresh, outcome, isPhoto, stored)

SpecRequests == InitFresh /\ [][RequestsNext]_vars

\* ---------------------------------------------------------- WhitelistManager
\* the userIds the settings window may pass: strings, or numbers of the same digits
UserIdValues == {Str("42"), Num("42"), Str("43"), Num("43")}

\* what every handler of the WhitelistManager leaves alone
WhitelistFrame ==
  /\ emitted' = <<>>
  /\ UNCHANGED <<unreads, lastSeenIds, listening, pollTimer, polls, connected>>
  /\ UNCHANGED <<lastSeenFile, writable>>
  /\ UNCHANGED daemonVars
  /\ UNCHANGED bubbleVars

\* addUser pushing without asking isWhitelisted
AddUserEntries_NoCheck(entries, userId) ==
  Append(entries, [userId |-> Str(String(userId))])

\* the whitelist after addUser(user): the entry is pushed unless the id is present
AddUserEntries(entries, userId) ==
  IF SomeEntry(entries, String(userId)) THEN entries
  ELSE Append(entries, [userId |-> Str(String(userId))])

\* the whitelist after removeUser(userId): the filter
RemoveUserEntries(entries, userId) ==
  SelectSeq(entries, LAMBDA u : String(u.userId) # String(userId))

\* ---- WhitelistManager.addUser: returns false, or pushes, saves and returns true
AddUser(userId) ==
  /\ config' = [config EXCEPT !.whitelist = AddUserEntries(@, userId)]
  /\ IF SomeEntry(config.whitelist, String(userId))
     THEN UNCHANGED configFile
     ELSE SaveConfig(config')
  /\ whitelist' = WhitelistedIds(config'.whitelist)
  /\ WhitelistFrame

\* removeUser dropping the contact's ledger row as well
RemoveUser_DropRow(userId) ==
  /\ config' = [config EXCEPT !.whitelist = RemoveUserEntries(@, userId)]
  /\ IF Len(config'.whitelist) # Len(config.whitelist)
     THEN SaveConfig(config')
     ELSE UNCHANGED configFile
  /\ whitelist' = WhitelistedIds(config'.whitelist)
  /\ emitted' = <<>>
  /\ unreads' = MapDelete(unreads, String(userId))
  /\ UNCHANGED <<lastSeenIds, listening, pollTimer, polls, connected>>
  /\ UNCHANGED <<lastSeenFile, writable>>
  /\ UNCHANGED daemonVars
  /\ UNCHANGED bubbleVars

\* ---- WhitelistManager.removeUser: filters; saves and returns true if an entry went
RemoveUser(userId) ==
  /\ config' = [config EXCEPT !.whitelist = RemoveUserEntries(@, userId)]
  /\ IF Len(config'.whitelist) # Len(config.whitelist)
     THEN SaveConfig(config')
     ELSE UNCHANGED configFile
  /\ whitelist' = WhitelistedIds(config'.whitelist)
  /\ WhitelistFrame

\* ---- WhitelistManager.updateSettings({bubblePosition}): merges, saves
UpdateSettings(bubblePosition) ==
  /\ config' = [config EXCEPT !.settings = [@ EXCEPT !.bubblePosition = bubblePosition]]
  /\ SaveConfig(config')
  /\ UNCHANGED whitelist
  /\ WhitelistFrame

\* ------------------------------------------- the ledger rows under every kind of event
\* of a handler only this is kept: the contact it marked read, "" if it was no markRead
LedgerObs(read) == last' = [read |-> read] /\ UNCHANGED accepted

\* the tracker's handlers while the connection and the whitelist of contact "42" change
LedgerNext ==
  \/ TrackerStart /\ LedgerObs("")
  \/ \E msg \in PushMessages, d \in DialogIds : HandleNewMessage(msg, d) /\ LedgerObs("")
  \/ \E u \in UserIds : MarkRead(u) /\ LedgerObs(u)
  \/ PollTick /\ LedgerObs("")
  \/ \E p \in polls, dialogs \in DialogResponses : PollDialogs(p, dialogs) /\ LedgerObs("")
  \/ \E p \in polls, messages \in MessageResponses :
       PollMessages(p, messages) /\ LedgerObs("")
  \/ \E ok \in BOOLEAN : GetHealth(ok) /\ LedgerObs("")
  \/ ws = "none" /\ DaemonStart(TRUE) /\ LedgerObs("")
  \/ WsOpen /\ LedgerObs("")
  \/ WsClose /\ LedgerObs("")
  \/ \E v \in {Str("42"), Num("42")} : AddUser(v) /\ LedgerObs("")
  \/ \E v \in {Str("42"), Num("42")} : RemoveUser(v) /\ LedgerObs("")

SpecLedger == InitFresh /\ [][LedgerNext]_vars

\* --------------------------------------------------------- a crash and a new launch
\* WhitelistManager.load: the parsed file, or the defaults when it does not parse
LoadConfig(file) ==
  IF file.valid THEN file.data
  ELSE [whitelist |-> <<>>, settings |-> DefaultSettings]

\* ---- the process dies and is launched again: the three singletons are constructed anew,
\* the config and the watermarks are read from their files
Restart ==
  /\ config' = LoadConfig(configFile)
  /\ IF configFile.valid THEN UNCHANGED configFile ELSE SaveConfig(config')
  /\ whitelist' = WhitelistedIds(config'.whitelist)
  /\ lastSeenIds' = LoadLastSeen(lastSeenFile)
  /\ unreads' = EmptyMap
  /\ listening' = FALSE
  /\ pollTimer' = FALSE
  /\ polls' = {}
  /\ connected' = FALSE
  /\ ws' = "none"
  /\ detached' = 0
  /\ timers' = {}
  /\ reconnectTimer' = 0
  /\ reconnectAttempts' = 0
  /\ healthCheckTimer' = FALSE
  /\ bubbles' = <<>>
  /\ closing' = [u \in DOMAIN closing |-> 0]
  /\ orphans' = [u \in DOMAIN orphans |-> 0]
  /\ lastDelay' = 0
  /\ schedCount' = 0
  /\ emitted' = <<>>
  /\ UNCHANGED <<lastSeenFile, writable>>

\* the handler run, and whether the process has been launched again since the first start
Restarted == IF "restarted" \in DOMAIN last THEN last.restarted ELSE FALSE
RestartObs(op) == last' = [op |-> op, restarted |-> Restarted \/ op = "restart"] /\ UNCHANGED accepted

RestartNext ==
  \/ TrackerStart /\ RestartObs("start")
  \/ \E msg \in PushMessages, d \in DialogIds : HandleNewMessage(msg, d) /\ RestartObs("push")
  \/ \E u \in UserIds : MarkRead(u) /\ RestartObs("markRead")
  \/ PollTick /\ RestartObs("tick")
  \/ \E p \in polls, dialogs \in DialogResponses : PollDialogs(p, dialogs) /\ RestartObs("dialogs")
  \/ \E p \in polls, messages \in MessageResponses :
       PollMessages(p, messages) /\ RestartObs("poll")
  \/ \E ok \in BOOLEAN : GetHealth(ok) /\ RestartObs("health")
  \/ Restart /\ RestartObs("restart")

SpecRestart == InitFresh /\ [][RestartNext]_vars

\* ------------------------------------------------------ writes that may fail
\* ---- the disk (or the directory's permissions) changes: writes start or stop failing
DiskFlips ==
  /\ writable' = ~writable
  /\ emitted' = <<>>
  /\ UNCHANGED <<lastSeenFile, config, configFile>>
  /\ UNCHANGED connected
  /\ UNCHANGED trackerVars
  /\ UNCHANGED daemonVars
  /\ UNCHANGED bubbleVars

\* ---- MessageTracker.stop: clearInterval, _saveLastSeen
TrackerStop ==
  /\ pollTimer' = FALSE
  /\ SaveLastSeen(lastSeenIds)
  /\ emitted' = <<>>
  /\ UNCHANGED <<whitelist, unreads, lastSeenIds, listening, polls, connected>>
  /\ UNCHANGED <<config, configFile, writable>>
  /\ UNCHANGED daemonVars
  /\ UNCHANGED bubbleVars

\* the files hold what the memory holds
LastSeenInSync == lastSeenFile.valid /\ LoadLastSeen(lastSeenFile) = lastSeenIds
ConfigInSync == configFile.valid /\ configFile.data = config

\* the handler run, its argument, whether it found the watermark file behind the
\* memory and wrote it, and the read receipts it posted to the backend
PersistObs(op, arg) ==
  /\ last' = [op |-> op, arg |-> arg,
              healed |-> ~LastSeenInSync /\ writable /\ lastSeenFile' # lastSeenFile,
              posted |-> IF op = "markRead" THEN MarkReadRequests(arg) ELSE <<>>]
  /\ UNCHANGED accepted

PersistNext ==
  \/ TrackerStart /\ PersistObs("start", "")
  \/ \E msg \in PushMessages : HandleNewMessage(msg, "d1") /\ PersistObs("push", "")
  \/ \E u \in UserIds : MarkRead(u) /\ PersistObs("markRead", u)
  \/ TrackerStop /\ PersistObs("stop", "")
  \/ \E v \in {Str("42"), Num("42")} : AddUser(v) /\ PersistObs("addUser", String(v))
  \/ \E v \in {Str("42"), Num("42")} : RemoveUser(v) /\ PersistObs("removeUser", String(v))
  \/ \E pos \in {"left", "right"} : UpdateSettings(pos) /\ PersistObs("updateSettings", pos)
  \/ DiskFlips /\ PersistObs("disk", "")

SpecPersist == InitFresh /\ [][PersistNext]_vars

\* ------------------------------------------------- the whitelist under add and remove
\* no two entries have the same String(userId)
DuplicateFree(entries) ==
  \A j, k \in 1..Len(entries) :
    String(entries[j].userId) = String(entries[k].userId) => j = k

\* the whitelists a config.json may hold: entries with string or number userIds
LoadableWhitelists ==
  {w \in SeqsUpTo({[userId |-> v] : v \in UserIdValues},
                  Cardinality({String(v) : v \in UserIdValues})) : DuplicateFree(w)}

\* addUser returns true exactly when it pushed; removeUser when the filter dropped an entry
AddUserReturns(entries, userId) == ~SomeEntry(entries, String(userId))
RemoveUserReturns(entries, userId) ==
  Len(RemoveUserEntries(entries, userId)) # Len(entries)

\* after load() read a config.json with a duplicate-free whitelist
InitWhitelist ==
  /\ config \in {[whitelist |-> w, settings |-> DefaultSettings] : w \in LoadableWhitelists}
  /\ configFile = [valid |-> TRUE, data |-> config]
  /\ whitelist = WhitelistedIds(config.whitelist)
  /\ writable = TRUE
  /\ lastSeenFile = NoFile
  /\ lastSeenIds = EmptyMap
  /\ unreads = EmptyMap
  /\ listening = FALSE
  /\ pollTimer = FALSE
  /\ polls = {}
  /\ connected = FALSE
  /\ ws = "none"
  /\ detached = 0
  /\ timers = {}
  /\ reconnectTimer = 0
  /\ reconnectAttempts = 0
  /\ healthCheckTimer = FALSE
  /\ bubbles = <<>>
  /\ closing = [u \in BubbleUserIds |-> 0]
  /\ orphans = [u \in BubbleUserIds |-> 0]
  /\ lastDelay = 0
  /\ schedCount = 0
  /\ emitted = <<>>
  /\ last = NoOp
  /\ accepted = {}

\* the call, what it returned, and the config and the file it found
WhitelistObs(op, userId, returned) ==
  /\ last' = [op |-> op, userId |-> userId, returned |-> returned,
              config |-> config, configFile |-> configFile]
  /\ UNCHANGED accepted

WhitelistNext ==
  \/ \E v \in UserIdValues :
       AddUser(v) /\ WhitelistObs("addUser", v, AddUserReturns(config.whitelist, v))
  \/ \E v \in UserIdValues :
       RemoveUser(v) /\ WhitelistObs("removeUser", v, RemoveUserReturns(config.whitelist, v))
  \/ \E pos \in {"left", "right"} :
       UpdateSettings(pos) /\ WhitelistObs("updateSettings", Str(pos), TRUE)

SpecWhitelist == InitWhitelist /\ [][WhitelistNext]_vars

\* ------------------------------------------------------- frames of the push socket
\* a frame: text that JSON.parse rejects, or an event with a type ("" if it has none);
\* a 'newMessage' event carries a message and its dialog
Frames ==
  {[parses |-> FALSE, type |-> "", msg |-> m, dialogId |-> "d1"] :
     m \in {[id |-> 1, fromId |-> "42", senderId |-> ""]}}
  \cup {[parses |-> TRUE, type |-> t, msg |-> m, dialogId |-> "d1"] :
          t \in {"newMessage", "typing", "", "ws-connected", "ws-disconnected",
                 "connection-changed"},
          m \in PushMessages}

\* this.emit('event', event) and this.emit(event.type, event)
FrameEv(type) == [type |-> type, userId |-> "", dialogId |-> "", id |-> 0, count |-> 0]

\* what the 'message' handler emits itself for a frame
FrameEvents(frame) ==
  IF ~frame.parses THEN <<>>
  ELSE << FrameEv("event") >> \o (IF frame.type # "" THEN << FrameEv(frame.type) >> ELSE <<>>)

\* the messages a frame hands to the tracker's 'newMessage' listener
FrameKept(frame) ==
  IF frame.parses /\ frame.type = "newMessage" /\ listening THEN PushKept(frame.msg) ELSE <<>>

\* a 'message' handler that closes the socket on a frame it cannot parse
WsFrame_DropsSocket(frame) ==
  /\ ws = "open"
  /\ LET st == AddAll([unreads |-> unreads, emitted |-> <<>>],
                      SenderOf(frame.msg), frame.dialogId, FrameKept(frame))
     IN /\ unreads' = st.unreads
        /\ emitted' = FrameEvents(frame) \o st.emitted
  /\ ws' = IF frame.parses THEN ws ELSE "closing"
  /\ UNCHANGED <<whitelist, lastSeenIds, listening, pollTimer, polls, connected>>
  /\ UNCHANGED <<detached, timers, reconnectTimer, reconnectAttempts, healthCheckTimer,
                 lastDelay, schedCount>>
  /\ UNCHANGED bubbleVars
  /\ UNCHANGED fileVars

\* ---- the socket's 'message' handler: JSON.parse, emit 'event', emit the event's type
\* (the tracker's _handleNewMessage listens to 'newMessage'); a parse error is logged
WsFrame(frame) ==
  /\ ws = "open"
  /\ LET st == AddAll([unreads |-> unreads, emitted |-> <<>>],
                      SenderOf(frame.msg), frame.dialogId, FrameKept(frame))
     IN /\ unreads' = st.unreads
        /\ emitted' = FrameEvents(frame) \o st.emitted
  /\ UNCHANGED <<whitelist, lastSeenIds, listening, pollTimer, polls, connected>>
  /\ UNCHANGED daemonVars
  /\ UNCHANGED bubbleVars
  /\ UNCHANGED fileVars

\* the handler run; for a frame, whether it parsed and whether the frame before it did not
AfterBadFrame == IF "op" \in DOMAIN last /\ last.op = "frame" THEN ~last.parsed ELSE FALSE
FrameObs(op, parsed) ==
  /\ last' = [op |-> op, parsed |-> parsed, afterBad |-> op = "frame" /\ AfterBadFrame]
  /\ UNCHANGED accepted

FramesNext ==
  \/ TrackerStart /\ FrameObs("start", TRUE)
  \/ ws = "none" /\ DaemonStart(TRUE) /\ FrameObs("daemon-start", TRUE)
  \/ \E t \in timers : ReconnectTimerFires(t, TRUE) /\ FrameObs("timer", TRUE)
  \/ WsOpen /\ FrameObs("ws-open", TRUE)
  \/ WsClose /\ FrameObs("ws-close", TRUE)
  \/ \E frame \in Frames : WsFrame(frame) /\ FrameObs("frame", frame.parses)
  \/ \E u \in UserIds : MarkRead(u) /\ FrameObs("markRead", TRUE)

SpecFrames == InitFresh /\ [][FramesNext]_vars

\* ----------------------------------------------- the read receipts markRead posts
\* the POST /messages/:id/read requests posted and not yet settled (the program keeps
\* no handle to them: daemon.markRead(latest.id).catch(() => {}))
Inflight == IF "inflight" \in DOMAIN last THEN last.inflight ELSE {}

ReceiptObs(op, inflight) == last' = [op |-> op, inflight |-> inflight] /\ UNCHANGED accepted

\* a settle handler that takes the watermark back when the receipt failed
ReceiptSettles_RollsBack(id, outcome) ==
  /\ id \in Inflight
  /\ emitted' = <<>>
  /\ lastSeenIds' = IF Caught(Request(outcome), "null") = Returned("null")
                    THEN [d \in {x \in DOMAIN lastSeenIds : lastSeenIds[x] # id} |->
                            lastSeenIds[d]]
                    ELSE lastSeenIds
  /\ UNCHANGED <<whitelist, unreads, listening, pollTimer, polls, connected>>
  /\ UNCHANGED daemonVars
  /\ UNCHANGED bubbleVars
  /\ UNCHANGED fileVars

\* ---- the request of daemon.markRead(id) settles: the wrapper returns the body or
\* null, and the empty .catch of markRead has nothing to do
ReceiptSettles(id, outcome) ==
  /\ id \in Inflight
  /\ Caught(Request(outcome), "null") \in {Returned("body"), Returned("null")}
  /\ emitted' = <<>>
  /\ UNCHANGED connected
  /\ UNCHANGED trackerVars
  /\ UNCHANGED daemonVars
  /\ UNCHANGED bubbleVars
  /\ UNCHANGED fileVars

ReceiptsNext ==
  \/ TrackerStart /\ ReceiptObs("start", Inflight)
  \/ \E msg \in PushMessages, d \in DialogIds :
       HandleNewMessage(msg, d) /\ ReceiptObs("push", Inflight)
  \/ \E u \in UserIds :
       /\ MarkRead(u)
       /\ ReceiptObs("markRead",
                     Inflight \cup {MarkReadRequests(u)[k] : k \in 1..Len(MarkReadRequests(u))})
  \/ \E id \in Inflight, outcome \in RequestOutcomes :
       ReceiptSettles(id, outcome) /\ ReceiptObs(outcome, Inflight \ {id})
  \/ \E ok \in BOOLEAN : GetHealth(ok) /\ ReceiptObs("health", Inflight)

SpecReceipts == InitFresh /\ [][ReceiptsNext]_vars

\* ------------------------------------------------ showing and hiding the windows
\* the contacts whose events reach the pool here
VisibilityUserIds == {"1", "2"}

\* BubbleManager.visible; the constructor sets it to true
Visible == IF "visible" \in DOMAIN last THEN last.visible ELSE TRUE

\* the userIds whose tracked window is on screen (BrowserWindow.isVisible())
Shown == IF "shown" \in DOMAIN last THEN last.shown ELSE {}

\* the userIds the map holds a window for
Tracked == {bubbles[k] : k \in 1..Len(bubbles)}

\* Shown after handleUnreadsChanged(userId, count): new BrowserWindow({...}) is given
\* no show option, so the window is on screen once it is constructed
ShownAfterUnreads(userId, count) ==
  IF count > 0
  THEN IF BubblesHas(userId) \/ Len(bubbles) >= MAX_BUBBLES
       THEN Shown
       ELSE Shown \cup {userId}
  ELSE Shown \ {userId}

VisibilityObs(op, visible, shown) ==
  /\ last' = [op |-> op, visible |-> visible, shown |-> shown, was |-> Visible]
  /\ UNCHANGED accepted

\* hideAll closing the windows it hides
HideAll_Closes(op) ==
  /\ VisibilityObs(op, FALSE, {})
  /\ emitted' = <<>>
  /\ DestroyAll
  /\ UNCHANGED trackerVars
  /\ UNCHANGED connected
  /\ UNCHANGED daemonVars
  /\ UNCHANGED fileVars

\* ---- BubbleManager.showAll: a tracked window is never a destroyed one here
ShowAll(op) ==
  /\ VisibilityObs(op, TRUE, Tracked)
  /\ emitted' = <<>>
  /\ UNCHANGED trackerVars
  /\ UNCHANGED connected
  /\ UNCHANGED daemonVars
  /\ UNCHANGED fileVars
  /\ UNCHANGED bubbleVars

\* ---- BubbleManager.hideAll
HideAll(op) ==
  /\ VisibilityObs(op, FALSE, {})
  /\ emitted' = <<>>
  /\ UNCHANGED trackerVars
  /\ UNCHANGED connected
  /\ UNCHANGED daemonVars
  /\ UNCHANGED fileVars
  /\ UNCHANGED bubbleVars

\* ---- BubbleManager.toggleVisibility, the tray menu's 'Show/Hide Bubbles'
ToggleVisibility == IF Visible THEN HideAll("toggle") ELSE ShowAll("toggle")

VisibilityNext ==
  \/ \E u \in VisibilityUserIds, n \in 0..MaxCount :
       HandleUnreadsChanged(u, n) /\ VisibilityObs("unreads", Visible, ShownAfterUnreads(u, n))
  \/ \E u \in VisibilityUserIds :
       PopupRemovesBubble(u) /\ VisibilityObs("remove", Visible, Shown \ {u})
  \/ \E u \in VisibilityUserIds :
       WindowClosed(u) /\ VisibilityObs("closed", Visible, Shown \ {u})
  \/ ShowAll("showAll")
  \/ HideAll("hideAll")
  \/ ToggleVisibility

SpecVisibility == InitFresh /\ [][VisibilityNext]_vars

\* ------------------------------------------------- the dialogs of a contact's messages
\* the <<userId, dialogId, id>> of the 'new-message' events of a step: _addUnread's
\* arguments at each acceptance
AcceptedUnder(events) ==
  {<<events[k].userId, events[k].dialogId, events[k].id>> :
     k \in {j \in 1..Len(events) : events[j].type = "new-message"}}

\* the messages the rows hold, each with the dialog it was accepted under
Buffered == IF "buffered" \in DOMAIN last THEN last.buffered ELSE {}

\* the messages the rows held when their contact was marked read, each with the
\* dialogs its row had messages of
MarkedRead == IF "markedRead" \in DOMAIN last THEN last.markedRead ELSE {}

\* after a handler other than markRead
DialogObs(op) ==
  /\ last' = [op |-> op, buffered |-> Buffered \cup AcceptedUnder(emitted'),
              markedRead |-> MarkedRead]
  /\ UNCHANGED accepted

\* after markRead(userId): the row, if there was one, is gone
DialogObsRead(userId) ==
  /\ last' = [op |-> "markRead",
              buffered |-> {b \in Buffered : b[1] # userId},
              markedRead |->
                MarkedRead \cup {[msg |-> b, dialogs |-> {c[2] : c \in {x \in Buffered : x[1] = userId}}] :
                                   b \in {x \in Buffered : x[1] = userId}}]
  /\ UNCHANGED accepted

DialogsNext ==
  \/ TrackerStart /\ DialogObs("start")
  \/ \E msg \in PushMessages, d \in DialogIds : HandleNewMessage(msg, d) /\ DialogObs("push")
  \/ \E u \in UserIds : MarkRead(u) /\ DialogObsRead(u)
  \/ PollTick /\ DialogObs("tick")
  \/ \E p \in polls, dialogs \in DialogResponses : PollDialogs(p, dialogs) /\ DialogObs("dialogs")
  \/ \E p \in polls, messages \in MessageResponses :
       PollMessages(p, messages) /\ DialogObs("poll")
  \/ \E ok \in BOOLEAN : GetHealth(ok) /\ DialogObs("health")

SpecDialogs == InitFresh /\ [][DialogsNext]_vars

\* ================================================================ claims
Ids(messages) == {messages[k].id : k \in 1..Len(messages)}
CountEvents(events, ev) == Cardinality({k \in 1..Len(events) : events[k] = ev})

\* C1: a contact's message is accepted (appended, 'new-message' emitted) at most once in
\* the life of the process: no step accepts a <<contact, message id>> accepted before.
C1_AcceptedAtMostOnce ==
  [][\A pr \in AcceptedBy(emitted') : pr \notin accepted]_vars

\* C2: no step lowers or removes the watermark of a dialog.
C2_WatermarkMonotone ==
  [][\A d \in DOMAIN lastSeenIds :
       MapHas(lastSeenIds', d) /\ lastSeenIds'[d] >= lastSeenIds[d]]_vars

\* C3: in every ledger row count is the number of buffered messages, and no two
\* buffered messages have the same id.
C3_CountIsLength ==
  \A u \in DOMAIN unreads :
    /\ unreads[u].count = Len(unreads[u].messages)
    /\ \A j, k \in 1..Len(unreads[u].messages) :
         unreads[u].messages[j].id = unreads[u].messages[k].id => j = k

\* a message whose id is buffered was offered again (by push), and the row has two messages
C3_Witness ==
  /\ last.op = "push" /\ last.kept # <<>>
  /\ HasId(last.row.messages, last.kept[1].id)
  /\ Len(getUnreads(last.userId).messages) >= 2

\* C4: a handler that passes to _addUnread only messages whose ids are already buffered
\* for the contact leaves the contact's row (messages, count, dialogId) as it was and
\* emits nothing.
C4_DuplicateIsNoOp ==
  (/\ last.op \in {"push", "poll"}
   /\ last.kept # <<>>
   /\ Ids(last.kept) \subseteq Ids(last.row.messages))
  => /\ MapHas(unreads, last.userId)
     /\ unreads[last.userId] = last.row
     /\ emitted = <<>>

\* a poll offered a message that push had buffered under another dialog id
C4_Witness ==
  /\ last.op = "poll" /\ last.kept # <<>>
  /\ Ids(last.kept) \subseteq Ids(last.row.messages)
  /\ last.dialogId # last.row.dialogId

\* C5: right after markRead(c) found a ledger row for c, c has no row, getUnreads(c).count
\* is 0, and the call emitted exactly one 'user-unreads-changed', which is {c, 0}.
C5_ReadClears ==
  (last.op = "markRead" /\ last.hadRow /\ last.row.messages # <<>>)
  => /\ ~MapHas(unreads, last.userId)
     /\ getUnreads(last.userId).count = 0
     /\ CountEvents(emitted, UnreadsChangedEv(last.userId, 0)) = 1
     /\ Cardinality({k \in 1..Len(emitted) : emitted[k].type = "user-unreads-changed"}) = 1

C5_Witness ==
  last.op = "markRead" /\ last.hadRow /\ Len(last.row.messages) >= 2

\* C6: right after markRead(c) found a row, the watermark of the row's dialog is at least
\* the id of every message the row held.
C6_WatermarkCoversRow ==
  (last.op = "markRead" /\ last.hadRow)
  => \A id \in Ids(last.row.messages) :
       MapHas(lastSeenIds, last.row.dialogId) /\ lastSeenIds[last.row.dialogId] >= id

\* C7: of the messages a poll fetched for dialog d of contact u, exactly those with a
\* watermark for d, an id above it and sender u are passed to _addUnread (and are then
\* buffered); nothing else enters the row; without a watermark nothing is accepted and
\* the watermark stays unset.
C7_InClaim(m) ==
  /\ MapHas(last.seen, last.dialogId)
  /\ m.id > last.seen[last.dialogId]
  /\ m.fromId = last.userId
C7_PollFilter ==
  last.op = "poll"
  => /\ last.kept = SelectSeq(last.messages, C7_InClaim)
     /\ Ids(getUnreads(last.userId).messages) = Ids(last.row.messages) \cup Ids(last.kept)
     /\ lastSeenIds = last.seen
     /\ ~MapHas(last.seen, last.dialogId)
          => /\ emitted = <<>>
             /\ getUnreads(last.userId) = last.row
             /\ ~MapHas(lastSeenIds, last.dialogId)

\* a poll fetched a message and accepted it
C7_Witness ==
  /\ last.op = "poll" /\ last.kept # <<>>
  /\ emitted # <<>>

\* C8: the bubble windows that exist and were not asked to close never number more
\* than maxBubbles.
C8_PoolCap == LiveWindows <= maxBubbles

\* C9: the Nth reconnect scheduled since the last 'open' (or the start) has the delay
\* min(1000 * 2^(N-1), 30000); reconnectAttempts counts exactly those reconnects, so only
\* an 'open' resets it, and the first delay after an 'open' is 1000.
C9_BackoffDelay ==
  /\ reconnectAttempts = schedCount
  /\ schedCount >= 1 =>
       lastDelay = (IF 1000 * (2 ^ (schedCount - 1)) < 30000
                    THEN 1000 * (2 ^ (schedCount - 1)) ELSE 30000)
  /\ last.op = "ws-open" => reconnectAttempts = 0

\* the delay has reached its cap of 30000 at the sixth reconnect in a row
C9_Witness ==
  schedCount >= 6 /\ lastDelay = 30000 /\ last.op = "ws-close"

\* C10: at most one reconnect timer is armed at any time, and a 'close' of a push socket
\* schedules exactly one reconnect: afterwards the only armed timer is the new one.
C10_OneReconnectTimer ==
  /\ Cardinality(timers) <= 1
  /\ last.op = "ws-close" =>
       /\ timers = {reconnectTimer}
       /\ schedCount = last.count + 1

\* a socket closed while the timer of an earlier close was still armed
C10_Witness ==
  last.op = "ws-close" /\ last.pending = 1

\* C11: the step that follows the shutdown handler, unless it is a new start(), leaves
\* no reconnect timer armed and no push socket connecting.
C11_ShutdownIsFinal ==
  [][(last.op = "quit" /\ last'.op # "start") => (timers' = {} /\ ws' # "connecting")]_vars

\* C12: of a push and a poll that offer the same message id for a contact, exactly one is
\* accepted: a handler's offer of an id is accepted (one 'new-message') exactly when the
\* id was not buffered, and the row then holds the id exactly once.
C12_OneAcceptance ==
  last.op \in {"push", "poll"}
  => \A k \in 1..Len(last.kept) :
       LET id == last.kept[k].id
           row == getUnreads(last.userId).messages
       IN /\ Cardinality({j \in 1..Len(emitted) :
                            /\ emitted[j].type = "new-message"
                            /\ emitted[j].userId = last.userId
                            /\ emitted[j].id = id})
             = (IF id \in Ids(last.row.messages) THEN 0 ELSE 1)
          /\ Cardinality({j \in 1..Len(row) : row[j].id = id}) = 1

\* push accepted a message while a poll of the same contact is suspended on its fetch
\* of a dialog whose watermark is below the message's id
C12_Witness ==
  /\ last.op = "push" /\ last.kept # <<>> /\ emitted # <<>>
  /\ \E p \in polls :
       /\ p.pc = "messages" /\ p.userId = last.userId
       /\ MapHas(lastSeenIds, p.dialogId)
       /\ lastSeenIds[p.dialogId] < last.kept[1].id

\* C13: a push event whose sender is empty or not whitelisted changes no ledger row and
\* emits nothing; one whose sender is whitelisted ends buffered in that sender's row, and
\* whatever the step emits names that sender.
C13_PushWhitelist ==
  [][last'.op = "push"
     => IF last'.userId = "" \/ last'.userId \notin whitelist
        THEN unreads' = unreads /\ emitted' = <<>>
        ELSE /\ MapHas(unreads', last'.userId)
             /\ Ids(last'.messages) \subseteq Ids(unreads'[last'.userId].messages)
             /\ \A k \in 1..Len(emitted') : emitted'[k].userId = last'.userId]_vars

\* a push from a sender who is not whitelisted arrived while the ledger had a row
C13_Witness ==
  /\ last.op = "push" /\ last.userId # "" /\ last.userId \notin whitelist
  /\ unreads # EmptyMap

\* C14: a 'close' of a push socket, and a connectWS() that could not construct its
\* socket, leave a reconnect timer armed, and an armed reconnect timer leads to a call
\* of connectWS() (by the timer or by start()) unless stop() comes first, for every
\* number of attempts the model follows.
C14_Scheduled ==
  /\ last.op = "ws-close" => timers # {}
  /\ (last.op \in {"timer", "start"} /\ schedCount = last.count + 1) => timers # {}
C14_Attempted(n) == last.op \in {"timer", "start"} /\ last.count = n
C14_RetriesForever ==
  /\ []C14_Scheduled
  /\ \A n \in 0..MaxAttempts :
       (timers # {} /\ schedCount = n /\ ~C14_Attempted(n))
         ~> (\/ C14_Attempted(n)
             \/ schedCount # n
             \/ last.op = "stop"
             \/ reconnectAttempts >= MaxAttempts)

\* the timer armed by the fourth close in a row has fired and connectWS() ran
C14_Witness ==
  last.op = "timer" /\ last.count = 4 /\ last.pending = 1 /\ ws = "connecting"

\* C15: with both timers running and the push socket closing only finitely often, a
\* message of the whitelisted contact that the backend holds in a dialog whose watermark
\* is below its id is eventually buffered for the contact, or the watermark has reached it.
C15_Owed ==
  /\ pollTimer /\ healthCheckTimer
  /\ MapHas(lastSeenIds, "d1")
  /\ lastSeenIds["d1"] < BackendMessage.id
C16_WindowPerUnread ==
  Len(bubbles) < maxBubbles
  => \A u \in DOMAIN closing :
       getUnreads(u).count > 0 => (BubblesHas(u) \/ orphans[u] > 0)

\* C17: a contact the pool holds a window for has a ledger count above 0.
C17_WindowOnlyWhileUnread ==
  \A u \in DOMAIN closing : BubblesHas(u) => getUnreads(u).count > 0

\* a contact was read, its window told to close, and a new message gave it a new window
\* while the old one has not reported 'closed'
C17_Witness ==
  \E u \in DOMAIN closing :
    BubblesHas(u) /\ closing[u] > 0 /\ MapHas(lastSeenIds, "d1")

\* C18: handleUnreadsChanged(u, n). With n > 0 and a window held for u: no window is
\* created and exactly one 'bubble-update' {u, n} is sent. With n > 0, no window for u
\* and fewer than MAX_BUBBLES held: exactly one window is created, for u. With n = 0: no
\* window is held for u afterwards, and if none was held nothing changes.
C18_OnUnreadChanged ==
  [][\A u \in BubbleUserIds, n \in 0..MaxCount :
       (last'.op = "unreads" /\ last'.userId = u /\ last'.count = n)
       => IF n > 0
          THEN IF BubblesHas(u)
               THEN /\ UNCHANGED bubbleVars
                    /\ emitted' = << BubbleUpdateEv(u, n) >>
               ELSE Len(bubbles) < MAX_BUBBLES
                    => /\ bubbles' = Append(bubbles, u)
                       /\ UNCHANGED <<closing, orphans>>
                       /\ emitted' = <<>>
          ELSE /\ \A k \in 1..Len(bubbles') : bubbles'[k] # u
               /\ ~BubblesHas(u) => (UNCHANGED bubbleVars /\ emitted' = <<>>)]_vars

\* an unread-changed event with a count above 0 found a window and updated it
C18_Witness ==
  /\ last.op = "unreads" /\ last.count > 0 /\ last.had
  /\ emitted = << BubbleUpdateEv(last.userId, last.count) >>

\* C19: no two windows the pool holds stand at the same y.
C19_NoOverlap ==
  \A u, v \in DOMAIN Placed : u # v => Placed[u] # Placed[v]

\* C20: only getHealth changes the connected flag or emits 'connection-changed'.
C20_OnlyHealthFlips ==
  [][(\/ connected' # connected
      \/ \E k \in 1..Len(emitted') : emitted'[k].type = "connection-changed")
     => last'.op = "health"]_vars

\* C21: a wrapper whose request failed or timed out returns its sentinel (null; [] for
\* getDialogs and getMessages) and does not throw; unless the wrapper is getHealth the
\* step leaves connected and reconnectAttempts as they were and emits nothing, and
\* getHealth's failure clears connected and emits one 'connection-changed' false.
C21_Wrappers == PlainWrappers \cup {"getProfilePhoto", "getHealth"}
C21_SentinelOnFailure ==
  [][(last'.op \in C21_Wrappers /\ last'.outcome # "ok")
     => /\ last'.result = Returned(IF last'.op \in {"getDialogs", "getMessages"}
                                   THEN "[]" ELSE "null")
        /\ IF last'.op = "getHealth"
           THEN /\ connected' = FALSE
                /\ emitted' = << ConnectionChangedEv(FALSE) >>
                /\ reconnectAttempts' = reconnectAttempts
           ELSE /\ connected' = connected
                /\ reconnectAttempts' = reconnectAttempts
                /\ emitted' = <<>>]_vars

\* getMessages timed out while the flag was set and a reconnect was pending
C21_Witness ==
  /\ last.op = "getMessages" /\ last.outcome = "timeout"
  /\ connected /\ reconnectAttempts > 0

\* C22: a handler that accepts n messages for a contact emits n pairs, each a
\* 'new-message' {contact, dialog, message} followed by a 'user-unreads-changed'
\* {contact, count} whose count is the row's length right after that append (the length
\* found plus 1, 2, ...), and the row then ends with those n messages; no other handler
\* emits a 'new-message' or a 'user-unreads-changed' with a count above 0.
C22_AcceptanceEvents ==
  IF last.op \in {"push", "poll"}
  THEN LET n == Len(emitted) \div 2
           before == Len(last.row.messages)
           row == getUnreads(last.userId).messages
       IN /\ Len(emitted) = 2 * n
          /\ Len(row) = before + n
          /\ \A k \in 1..n :
               /\ emitted[2 * k - 1].type = "new-message"
               /\ emitted[2 * k - 1].userId = last.userId
               /\ emitted[2 * k - 1].dialogId = last.dialogId
               /\ emitted[2 * k - 1].id = row[before + k].id
               /\ emitted[2 * k] = UnreadsChangedEv(last.userId, before + k)
  ELSE \A k \in 1..Len(emitted) :
         /\ emitted[k].type # "new-message"
         /\ emitted[k].type = "user-unreads-changed" => emitted[k].count = 0

\* an acceptance that made the contact's count 2
C22_Witness ==
  /\ last.op \in {"push", "poll"}
  /\ Len(emitted) = 2 /\ emitted[2].count = 2
  /\ Len(last.row.messages) = 1

\* C23: every ledger row has a count of at least 1; a step that keeps a contact's row
\* does not lower its count; and a step after which a contact's row is gone is a
\* markRead of that contact (not a poll, a push, a connection or a whitelist change).
C23_RowLifecycle ==
  [][/\ \A u \in DOMAIN unreads' : unreads'[u].count >= 1
     /\ \A u \in DOMAIN unreads :
          IF MapHas(unreads', u)
          THEN unreads'[u].count >= unreads[u].count
          ELSE last'.read = u]_vars

\* a contact with two buffered messages was taken off the whitelist while the push
\* socket was closed
C23_Witness ==
  /\ MapHas(unreads, "42") /\ unreads["42"].count = 2
  /\ "42" \notin whitelist /\ ws = "closed"

\* C24: after every handler the watermark file holds the in-memory watermarks, so a
\* launch after a crash starts with an empty ledger and the watermarks the process had,
\* and a poll accepts only messages whose id is above the watermark the file held for
\* their dialog when the poll's answer came.
C24_RestartSafe ==
  [][/\ LoadLastSeen(lastSeenFile') = lastSeenIds'
     /\ last'.op = "restart" => (lastSeenIds' = lastSeenIds /\ unreads' = EmptyMap)
     /\ last'.op = "poll" =>
          \A k \in 1..Len(emitted') :
            emitted'[k].type = "new-message" =>
              /\ MapHas(LoadLastSeen(lastSeenFile), emitted'[k].dialogId)
              /\ emitted'[k].id > LoadLastSeen(lastSeenFile)[emitted'[k].dialogId]]_vars

\* after a markRead and a new launch, a poll accepted a message above the reloaded watermark
C24_Witness ==
  /\ last.op = "poll" /\ Restarted
  /\ \E k \in 1..Len(emitted) : emitted[k].type = "new-message"

\* C25: whether or not the write succeeds, markRead of a contact with a row removes the
\* row, sets the watermark and emits its two events, addUser / removeUser / updateSettings
\* leave the intended config in memory; and every handler that writes a file while
\* writes succeed leaves that file holding the complete in-memory state.
C25_WriteFailureHeals ==
  [][/\ (last'.op = "markRead" /\ MapHas(unreads, last'.arg)) =>
          /\ ~MapHas(unreads', last'.arg)
          /\ lastSeenIds' = MapSet(lastSeenIds, unreads[last'.arg].dialogId,
                                   unreads[last'.arg].messages[
                                     Len(unreads[last'.arg].messages)].id)
          /\ emitted' = << MessagesReadEv(last'.arg), UnreadsChangedEv(last'.arg, 0) >>
          /\ writable => (lastSeenFile'.valid /\ LoadLastSeen(lastSeenFile') = lastSeenIds')
     /\ last'.op = "stop" =>
          (writable => (lastSeenFile'.valid /\ LoadLastSeen(lastSeenFile') = lastSeenIds'))
     /\ last'.op = "addUser" =>
          /\ SomeEntry(config'.whitelist, last'.arg)
          /\ (writable /\ ~SomeEntry(config.whitelist, last'.arg)) =>
               configFile' = [valid |-> TRUE, data |-> config']
     /\ last'.op = "removeUser" =>
          /\ ~SomeEntry(config'.whitelist, last'.arg)
          /\ (writable /\ SomeEntry(config.whitelist, last'.arg)) =>
               configFile' = [valid |-> TRUE, data |-> config']
     /\ last'.op = "updateSettings" =>
          /\ config'.settings.bubblePosition = last'.arg
          /\ config'.whitelist = config.whitelist
          /\ writable => configFile' = [valid |-> TRUE, data |-> config']]_vars

\* a markRead found the watermark file behind the memory (an earlier write had failed)
\* and left it in sync, while the config file, whose last write failed, is still behind
C25_Witness ==
  /\ last.op = "markRead" /\ last.healed
  /\ LastSeenInSync /\ ~ConfigInSync

\* C26: the whitelist never holds two entries whose userIds are equal as strings;
\* addUser of a userId that is present returns false and removeUser of one that is
\* absent returns false, and both then leave the config and its file as they were;
\* otherwise they return true and the userId is present, respectively absent, afterwards.
C26_WhitelistUnique ==
  /\ DuplicateFree(config.whitelist)
  /\ last.op = "addUser" =>
       /\ SomeEntry(config.whitelist, String(last.userId))
       /\ last.returned = ~SomeEntry(last.config.whitelist, String(last.userId))
       /\ ~last.returned => (config = last.config /\ configFile = last.configFile)
  /\ last.op = "removeUser" =>
       /\ ~SomeEntry(config.whitelist, String(last.userId))
       /\ last.returned = SomeEntry(last.config.whitelist, String(last.userId))
       /\ ~last.returned => (config = last.config /\ configFile = last.configFile)

\* addUser was called with the string "42" while the file's entry held the number 42
C26_Witness ==
  /\ last.op = "addUser" /\ last.userId = Str("42") /\ ~last.returned
  /\ \E k \in 1..Len(config.whitelist) : config.whitelist[k].userId = Num("42")
  /\ Len(config.whitelist) = 2

\* C27: the 'open' handler sets reconnectAttempts to 0 and connected to true and emits
\* 'ws-connected' once; the 'close' handler sets connected to false, emits
\* 'ws-disconnected' once and schedules one reconnect (one more attempt counted, its
\* timer the only one armed); the 'error' handler changes no field, arms no timer and
\* emits nothing.
C27_SocketHandlers ==
  [][/\ last'.op = "ws-open" =>
          /\ reconnectAttempts' = 0 /\ connected'
          /\ CountEvents(emitted', WsConnectedEv) = 1
          /\ timers' = timers
     /\ last'.op = "ws-close" =>
          /\ ~connected'
          /\ CountEvents(emitted', WsDisconnectedEv) = 1
          /\ reconnectAttempts' = reconnectAttempts + 1
          /\ timers' = {reconnectTimer'} /\ reconnectTimer' # 0
     /\ last'.op = "ws-error" =>
          /\ UNCHANGED <<connected, ws, detached, timers, reconnectTimer, reconnectAttempts,
                         healthCheckTimer>>
          /\ UNCHANGED trackerVars
          /\ emitted' = <<>>]_vars

\* the socket opened after two reconnects in a row and the counter was reset
C27_Witness ==
  last.op = "ws-open" /\ last.attempts >= 2 /\ reconnectAttempts = 0 /\ connected

\* C28: the handling of a frame that does not parse emits nothing and changes neither
\* connected, reconnectAttempts, the socket, the reconnect timers nor any ledger row; and
\* a frame that parses is handled the same whether or not the frame before it parsed: a
\* 'newMessage' from a whitelisted sender ends buffered.
C28_BadFrameDropped ==
  [][/\ (last'.op = "frame" /\ ~last'.parsed) =>
          /\ emitted' = <<>>
          /\ UNCHANGED <<connected, reconnectAttempts, ws, detached, timers,
                         reconnectTimer, unreads, lastSeenIds>>
     /\ (last'.op = "frame" /\ last'.parsed) =>
          /\ emitted' # <<>> /\ emitted'[1] = FrameEv("event")
          /\ UNCHANGED <<connected, reconnectAttempts, ws, timers>>
          /\ \A k \in 1..Len(emitted') :
               emitted'[k].type = "new-message" =>
                 /\ MapHas(unreads', emitted'[k].userId)
                 /\ HasId(unreads'[emitted'[k].userId].messages, emitted'[k].id)]_vars

\* right after a frame that did not parse, a 'newMessage' frame was accepted
C28_Witness ==
  /\ last.op = "frame" /\ last.parsed /\ last.afterBad
  /\ \E k \in 1..Len(emitted) : emitted[k].type = "new-message"

\* C29: a step that creates, changes or removes the watermark of a dialog is a markRead
\* of a contact whose row's dialog (the dialog of its last accepted message) is that
\* dialog, and the watermark becomes the id of the row's last message; pushes, poll
\* ticks and answers, health checks and a new launch leave every watermark as it is.
C29_OnlyMarkReadMovesWatermarks ==
  [][\A d \in (DOMAIN lastSeenIds) \cup (DOMAIN lastSeenIds') :
       (\/ ~MapHas(lastSeenIds, d)
        \/ ~MapHas(lastSeenIds', d)
        \/ lastSeenIds'[d] # lastSeenIds[d])
       => /\ last'.op = "markRead"
          /\ MapHas(lastSeenIds', d)
          /\ \E u \in DOMAIN unreads :
               /\ ~MapHas(unreads', u)
               /\ unreads[u].dialogId = d
               /\ lastSeenIds'[d] = unreads[u].messages[Len(unreads[u].messages)].id]_vars

\* a poll's answer with messages came for a dialog that has no watermark while push had
\* buffered a message of the contact, and the dialog still has none
C29_Witness ==
  /\ last.op = "poll" /\ emitted = <<>>
  /\ MapHas(unreads, "42") /\ unreads["42"].dialogId = "d1"
  /\ ~MapHas(lastSeenIds, "d1")
  /\ MapHas(lastSeenIds, "d2")

\* C30: markRead(c) for a contact c without a ledger row leaves the ledger, the
\* watermarks and the watermark file as they are (whether or not the disk is writable),
\* posts no read receipt to the backend and emits nothing; with a row it posts exactly
\* one, for the row's last message.
C30_MarkReadWithoutRow ==
  [][last'.op = "markRead"
     => IF MapHas(unreads, last'.arg)
        THEN last'.posted = << unreads[last'.arg].messages[
                                 Len(unreads[last'.arg].messages)].id >>
        ELSE /\ UNCHANGED <<unreads, lastSeenIds, lastSeenFile>>
             /\ last'.posted = <<>>
             /\ emitted' = <<>>]_vars

\* markRead was called for a contact without a row while another contact had one and a
\* watermark was set
C30_Witness ==
  /\ last.op = "markRead" /\ last.arg = "43" /\ last.posted = <<>>
  /\ MapHas(unreads, "42") /\ lastSeenIds # EmptyMap

\* C31: a markRead that finds a row sets and saves the watermark, deletes the row, emits
\* the zero count and posts one read receipt, all before the receipt settles; and when
\* the receipt settles (answered, failed or timed out) the ledger, the watermarks and
\* the file stay as they are, nothing is emitted and no receipt is posted again.
C31_ReceiptIsBestEffort ==
  [][/\ (last'.op = "markRead" /\ unreads' # unreads) =>
          \E u \in DOMAIN unreads :
            LET latest == unreads[u].messages[Len(unreads[u].messages)].id
            IN /\ unreads' = MapDelete(unreads, u)
               /\ lastSeenIds' = MapSet(lastSeenIds, unreads[u].dialogId, latest)
               /\ LoadLastSeen(lastSeenFile') = lastSeenIds'
               /\ CountEvents(emitted', UnreadsChangedEv(u, 0)) = 1
               /\ last'.inflight = Inflight \cup {latest}
     /\ last'.op \in RequestOutcomes =>
          /\ UNCHANGED <<unreads, lastSeenIds, lastSeenFile>>
          /\ emitted' = <<>>
          /\ last'.inflight \subseteq Inflight /\ last'.inflight # Inflight]_vars

\* the receipt of a markRead timed out after the contact's next message was buffered
C31_Witness ==
  /\ last.op = "timeout" /\ last.inflight = {}
  /\ MapHas(lastSeenIds, "d1") /\ MapHas(unreads, "42")

\* C32: after a push or a poll handler the contact's messages are the messages the
\* handler found, in their order, followed by the messages it accepted (those it was
\* given whose ids were not buffered), in the order it was given them.
C32_ArrivalOrder ==
  last.op \in {"push", "poll"}
  => LET before == last.row.messages
         row == getUnreads(last.userId).messages
         appended == SubSeq(row, Len(before) + 1, Len(row))
     IN /\ Len(row) >= Len(before)
        /\ SubSeq(row, 1, Len(before)) = before
        /\ Ids(appended) = Ids(last.kept) \ Ids(before)
        /\ \A j \in 1..Len(appended) : \E p \in 1..Len(last.kept) : last.kept[p] = appended[j]
        /\ \A j, k \in 1..Len(appended) :
             j < k => \E p, q \in 1..Len(last.kept) :
                        p < q /\ last.kept[p] = appended[j] /\ last.kept[q] = appended[k]

\* a message was accepted behind a buffered message with a higher id
C32_Witness ==
  /\ last.op \in {"push", "poll"} /\ emitted # <<>>
  /\ Len(getUnreads(last.userId).messages) = 2
  /\ getUnreads(last.userId).messages[1].id > getUnreads(last.userId).messages[2].id

\* C33: showAll, hideAll and toggleVisibility leave the pool map, the windows being
\* closed and the windows the map lost as they were; showAll leaves visible true and
\* every tracked window shown, hideAll leaves visible false and none shown; a
\* toggleVisibility that follows a toggleVisibility restores the flag the first found.
C33_VisibilityKeepsWindows ==
  [][ last'.op \in {"showAll", "hideAll", "toggle"}
      => /\ UNCHANGED <<bubbles, closing, orphans>>
         /\ UNCHANGED <<unreads, lastSeenIds, whitelist, connected, ws, lastSeenFile, configFile>>
         /\ last'.shown = (IF last'.visible THEN Tracked ELSE {})
         /\ last'.op = "showAll" => last'.visible
         /\ last'.op = "hideAll" => ~last'.visible
         /\ last'.op = "toggle" => last'.visible = ~last'.was
         /\ (last'.op = "toggle" /\ last.op = "toggle") => last'.visible = last.was ]_vars

\* a second toggleVisibility in a row, with a window tracked and one being closed
C33_Witness ==
  /\ last.op = "toggle" /\ last.visible /\ ~last.was
  /\ Len(bubbles) > 0 /\ last.shown = Tracked
  /\ \E u \in VisibilityUserIds : closing[u] > 0

\* C37: while BubbleManager.visible is false no tracked window is on screen; a window
\* created during the hidden period stays hidden until showAll.
C37_HiddenStaysHidden == ~Visible => Shown = {}

\* C34: every acceptance, the poll path's included, is for a contact that is
\* whitelisted when _addUnread runs: the 'new-message' events of a handler name
\* contacts the whitelist holds.
C34_AcceptedAreWhitelisted ==
  \A k \in 1..Len(emitted) :
    emitted[k].type = "new-message" => isWhitelisted(emitted[k].userId)

\* C35: every bubble window that exists and was not asked to close is the one the
\* pool map holds under its userId, so each contact has at most one such window: the
\* 'closed' callback of an earlier window leaves a newer window of the contact tracked.
C35_TrackingExact ==
  \A u \in BubbleUserIds :
    /\ orphans[u] = 0
    /\ (IF BubblesHas(u) THEN 1 ELSE 0) + orphans[u] <= 1

\* C36: the listeners of 'ws-connected', 'ws-disconnected' and 'connection-changed' run
\* only for 'open' and 'close' of a socket and for health checks: the handling of an
\* inbound frame emits none of the three, whatever the frame's type field says.
C36_FramesRaiseNoLifecycleEvent ==
  [][last'.op = "frame"
     => \A k \in 1..Len(emitted') :
          emitted'[k].type \notin {"ws-connected", "ws-disconnected", "connection-changed"}]_vars

\* C38: the 'close' event of a socket connectWS replaced, arriving while the socket
\* that replaced it is connecting or open, leaves the connected flag and the reconnect
\* timers as they are, so no reconnect closes the new socket on its account.
C38_ReplacedSocketCloseIsInert ==
  [][(last'.op = "ws-close" /\ ws \in {"connecting", "open"} /\ ws' = ws)
     => /\ connected' = connected
        /\ timers' = timers
        /\ reconnectTimer' = reconnectTimer]_vars

\* C39: a poll suspended on getMessages for a contact's dialog while markRead of that
\* contact ran accepts, when it resumes next, none of the messages the contact's row
\* held when markRead ran.
C39_ResumedPollReacceptsNothing ==
  [][(/\ last.op = "markRead" /\ last.hadRow
      /\ last'.op = "poll"
      /\ last'.userId = last.userId /\ last'.dialogId = last.dialogId)
     => \A k \in 1..Len(emitted') :
          emitted'[k].type = "new-message" => ~HasId(last.row.messages, emitted'[k].id)]_vars

\* C40: a message that was buffered under a dialog when its contact was marked read,
\* the row holding messages of more than one dialog, is not accepted again by a later
\* poll of that dialog.
C40_ReadStaysRead ==
  last.op = "poll"
  => \A r \in MarkedRead :
       Cardinality(r.dialogs) > 1 => r.msg \notin AcceptedUnder(emitted)

====
